---------------------------- MODULE Spec2Model ----------------------------
(***************************************************************************)
(* A model of the BA question generator (danapany/ba-project):             *)
(*   main_app.py            the Streamlit run: upload, generate, results   *)
(*   question_generator.py  BAQuestionGenerator                            *)
(*   src/generators/visual_generator.py  EnhancedBAQuestionGenerator       *)
(*   file_manager.py        JSON / Excel export                            *)
(*   src/utils/utils.py     generate_statistics, check_azure_config        *)
(*                                                                         *)
(* Text.  A Python str is a sequence of tokens: a token is a character or  *)
(* a run of characters that no operation of the program splits.  Blanks    *)
(* are tokens of their own, so that `kw in s`, s.split(' > '), s.find and  *)
(* s[a:b] are computed on the sequence as Python computes them on the      *)
(* characters.  TLC strings are ASCII, so the Korean literals of the       *)
(* source are written by their English gloss:                              *)
(*   선다형 multiple_choice   단답형 short_answer   서술형 essay             *)
(*   하 easy   중 medium   상 hard   미분류 unclassified   기타 etc           *)
(*   프로세스 process  모델링 modeling  설계 design  분석 analysis           *)
(*   데이터 data  논리 logical  물리 physical  인터페이스 interface          *)
(*   화면 screen  정의 definition  표준 standard                            *)
(***************************************************************************)
EXTENDS Integers, Sequences, FiniteSets, TLC

VARIABLES
    \* --- the Streamlit run of main() (main_app.py) ---
    env,                   \* os.getenv values read at import
    session_state,         \* st.session_state
    uploaded_file,         \* the file_uploader widget
    sliders,               \* the sidebar widgets
    button_disabled,       \* the `disabled` argument of the generate button
    generator,             \* the BAQuestionGenerator of the generation run
    question_distribution, \* main(): list of (q_type, subject, difficulty)
    questions,             \* main(): the list being generated
    prompts,               \* the learning-material slice of each prompt sent
    pc,                    \* where the run of main() stands
    counts,                \* main(): mc_count, sa_count, essay_count
    \* --- one invocation of generate_single_question_enhanced ---
    request,               \* (question_type, subject_area, difficulty)
    response,              \* what the completion API did
    result,                \* the record returned
    path,                  \* which branch produced it
    call_pc,               \* where the invocation stands
    api_calls,             \* completion calls issued by the invocation
    \* --- the export functions ---
    records,               \* the list of question records passed in
    output,                \* what the function returned
    temp_dir               \* the directory of temporary images on disk

mainVars == <<env, session_state, uploaded_file, sliders, button_disabled,
              generator, question_distribution, questions, prompts, pc, counts>>
genVars  == <<request, response, result, path, call_pc, api_calls>>
fileVars == <<records, output, temp_dir>>
vars     == <<mainVars, genVars, fileVars>>

-----------------------------------------------------------------------------
(* Python values *)

None == "None"
Min(a, b) == IF a < b THEN a ELSE b
Max(a, b) == IF a > b THEN a ELSE b

\* A one-token str.
S(tok) == <<tok>>
SP == " "

\* words joined by one blank each: the text of a str literal.
RECURSIVE Join(_)
Join(words) ==
    IF words = <<>> THEN <<>>
    ELSE IF Len(words) = 1 THEN Head(words)
    ELSE Head(words) \o <<SP>> \o Join(Tail(words))

\* Python `kw in s` on str.
Contains(s, kw) ==
    \E i \in 1..(Len(s) - Len(kw) + 1) : SubSeq(s, i, i + Len(kw) - 1) = kw

\* Python s[a:b] for 0 <= a, 0 <= b (0-based, b exclusive).
Slice(s, a, b) == SubSeq(s, a + 1, Min(b, Len(s)))

\* Python s.find(tok) and s.rfind(tok) for a one-character tok: 0-based, -1 if absent.
Find(s, tok) ==
    LET P == {i \in 1..Len(s) : s[i] = tok}
    IN IF P = {} THEN -1 ELSE (CHOOSE i \in P : \A j \in P : i <= j) - 1
RFind(s, tok) ==
    LET P == {i \in 1..Len(s) : s[i] = tok}
    IN IF P = {} THEN -1 ELSE (CHOOSE i \in P : \A j \in P : i >= j) - 1

\* dict.get(key, default); bool(d.get(key)) for a str or list value;
\* bool(v) for an environment value (a str or None)
Get(d, key, default) == IF key \in DOMAIN d THEN d[key] ELSE default
\* a dict value None (JSON null) stands where a str or a list could stand
Null == <<"<None>">>
FieldTruthy(d, key) == key \in DOMAIN d /\ d[key] \notin {<<>>, Null}
Truthy(v) == v \notin {None, ""}
\* {**a, **b} and a.update(b): b's keys win.
Update(a, b) == b @@ a

-----------------------------------------------------------------------------
(* question_generator.py: the constants of BAQuestionGenerator.__init__ *)

MC    == S("multiple_choice")
SA    == S("short_answer")
ESSAY == S("essay")
QuestionTypes == <<MC, SA, ESSAY>>

EASY   == S("easy")
MEDIUM == S("medium")
HARD   == S("hard")
difficulty_levels == <<EASY, MEDIUM, HARD>>

PM == <<S("process"), S("modeling")>>
DM == <<S("data"), S("modeling")>>
GT == S(">")
DASH == S("-")

subject_areas == <<
    Join(PM \o <<DASH, S("design"), GT, S("unittest"), S("case"), S("design")>>),
    Join(PM \o <<DASH, S("analysis"), GT, S("requirements"), S("definition")>>),
    Join(PM \o <<DASH, S("analysis"), GT, S("interface"), S("definition")>>),
    Join(PM \o <<DASH, S("analysis"), GT, S("methodology")>>),
    Join(PM \o <<DASH, S("design"), GT, S("interface"), S("design")>>),
    Join(PM \o <<DASH, S("design"), GT, S("MSA"), S("service"), S("design")>>),
    Join(PM \o <<DASH, S("analysis"), GT, <<"screen", "definition">> >>),
    Join(DM \o <<DASH>> \o DM \o <<GT, <<"physical", "data">>, S("modeling")>>),
    Join(DM \o <<DASH>> \o DM \o <<GT, <<"logical", "data">>, S("modeling")>>),
    Join(DM \o <<DASH, S("data"), <<"standard", "ization">>, GT, S("data"), <<"standard", "mgmt">> >>),
    Join(DM \o <<DASH, S("data"), <<"standard", "ization">>, GT, S("data"), <<"standard", "ization">> >>)
>>

\* the keywords the generator looks for in a subject area
KW_DataModeling    == Join(DM)
KW_ProcessDesign   == Join(PM \o <<DASH, S("design")>>)
KW_InterfaceDesign == Join(<<S("interface"), S("design")>>)
KW_MSADesign       == Join(<<S("MSA"), S("service"), S("design")>>)
KW_ScreenDef       == <<"screen", "definition">>
KW_Logical         == <<"logical", "data">>
KW_Physical        == <<"physical", "data">>
KW_ProcessModeling == Join(PM)
KW_Design          == S("design")
KW_Interface       == S("interface")


-----------------------------------------------------------------------------
(* Values the model does not compute: the clock, the random digits of an   *)
(* id, the PNG a matplotlib figure encodes to (a non-empty base64 str).    *)

Now == S("now")
RandDigits == "NNNN"
Image(kind) == <<"base64:", kind>>
QT == "\""
BS == "\\"

\* every template record is worth the highest score
PointsHighest(difficulty) == S("5")

\* '4' if difficulty == '중' else '3' if difficulty == '하' else '5'
Points(difficulty) ==
    IF difficulty = MEDIUM THEN S("4") ELSE IF difficulty = EASY THEN S("3") ELSE S("5")

-----------------------------------------------------------------------------
(* question_generator.py: generate_fallback_question *)

fallback_questions ==
    [t \in {MC, SA, ESSAY} |->
        IF t = MC THEN
            [question |-> S("Which of these is not an SDLC model?"),
             choices |-> <<S("(1) waterfall"), S("(2) spiral"), S("(3) agile"),
                           S("(4) V model"), S("(5) relational")>>,
             correct_answer |-> S("(5)"),
             explanation |-> S("The relational model is a database model.")]
        ELSE IF t = SA THEN
            [question |-> S("What is collecting stakeholder requirements called?"),
             correct_answer |-> S("requirements elicitation"),
             explanation |-> S("Requirements elicitation collects and clarifies.")]
        ELSE
            [question |-> S("Describe agile: traits, pros and cons."),
             model_answer |-> S("Agile develops in fast iterations..."),
             grading_criteria |-> <<S("core traits"), S("two pros"), S("one con")>>]]

generate_fallback_question_slip(question_type, subject_area, difficulty) ==
    \* the fallback of another type is picked (the default of .get is always used)
    LET base_data == fallback_questions[MC]
    IN Update([question_type |-> question_type,
               subject_area  |-> subject_area,
               difficulty    |-> difficulty,
               title         |-> question_type \o <<SP, "problem">>,
               scenario      |-> S("an ordinary business situation"),
               question_id   |-> <<"FALLBACK_", RandDigits>>,
               generated_at  |-> Now,
               points        |-> Points(difficulty)],
              base_data)

generate_fallback_question(question_type, subject_area, difficulty) ==
    LET base_data == IF question_type \in DOMAIN fallback_questions
                     THEN fallback_questions[question_type]
                     ELSE fallback_questions[MC]
    IN Update([question_type |-> question_type,
               subject_area  |-> subject_area,
               difficulty    |-> difficulty,
               title         |-> question_type \o <<SP, "problem">>,
               scenario      |-> S("an ordinary business situation"),
               question_id   |-> <<"FALLBACK_", RandDigits>>,
               generated_at  |-> Now,
               points        |-> IF difficulty = EASY THEN S("3")
                                 ELSE IF difficulty = MEDIUM THEN S("4") ELSE S("5")],
              base_data)

-----------------------------------------------------------------------------
(* src/generators/visual_generator.py: EnhancedBAQuestionGenerator *)

erd_scenarios   == <<S("library system"), S("hospital system")>>
table_scenarios == <<[title |-> S("employee table"), violation_type |-> S("1NF")]>>
uml_scenarios   == <<S("payment system")>>

\* _generate_erd_question; `pick` is the index random.choice draws
generate_erd_question(difficulty, pick) ==
    LET domain == erd_scenarios[pick]
    IN [question_id  |-> <<"ERD_", RandDigits>>,
        title        |-> domain \o <<SP, "ERD analysis">>,
        scenario     |-> <<"This is the ERD of ">> \o domain,
        question_type |-> MC,
        question     |-> S("Which describes the relations between the entities?"),
        choices      |-> <<S("(1) all 1:1"), S("(2) indirect through a central entity"),
                           S("(3) all independent"), S("(4) circular reference"),
                           S("(5) hierarchical inheritance")>>,
        correct_answer |-> S("(2)"),
        explanation  |-> S("The other entities connect through the central one."),
        difficulty   |-> difficulty,
        subject_area |-> Join(DM \o <<DASH>> \o DM \o <<GT, <<"logical", "data">>, S("modeling")>>),
        visual_type  |-> S("erd"),
        visual_image |-> Image("erd"),
        generated_at |-> Now,
        points       |-> Points(difficulty)]

\* _generate_table_question
generate_table_question(difficulty, pick) ==
    LET sc == table_scenarios[pick]
    IN [question_id  |-> <<"TABLE_", RandDigits>>,
        title        |-> sc.title \o <<SP, "normalization">>,
        scenario     |-> <<"This needs normalization: ">> \o sc.title,
        question_type |-> ESSAY,
        question     |-> S("Identify the violated normal form and normalize."),
        model_answer |-> sc.violation_type \o <<SP, "violated; split the multi-valued column">>,
        grading_criteria |-> <<S("violation identified"), S("normalization proposed"),
                               S("split tables explained")>>,
        explanation  |-> S("Normalization removes redundancy."),
        difficulty   |-> difficulty,
        subject_area |-> Join(DM \o <<DASH>> \o DM \o <<GT, <<"physical", "data">>, S("modeling")>>),
        visual_type  |-> S("table"),
        visual_image |-> Image("table"),
        generated_at |-> Now,
        points       |-> IF difficulty = HARD THEN S("5")
                         ELSE IF difficulty = MEDIUM THEN S("4") ELSE S("3")]

\* _generate_uml_question
generate_uml_question(difficulty, pick) ==
    LET domain == uml_scenarios[pick]
    IN [question_id  |-> <<"UML_", RandDigits>>,
        title        |-> domain \o <<SP, "UML design">>,
        scenario     |-> <<"This is the UML class diagram of ">> \o domain,
        question_type |-> SA,
        question     |-> S("Which design pattern does the diagram use?"),
        correct_answer |-> S("Strategy"),
        alternative_answers |-> <<S("Strategy Pattern"), S("strategy pattern (ko)")>>,
        explanation  |-> S("Strategy lets the payment method vary."),
        difficulty   |-> difficulty,
        subject_area |-> Join(PM \o <<DASH, S("design"), GT, S("MSA"), S("service"), S("design")>>),
        visual_type  |-> S("uml"),
        visual_image |-> Image("uml"),
        generated_at |-> Now,
        points       |-> Points(difficulty)]

\* generate_visual_question(template_type, difficulty)
generate_visual_question(template_type, difficulty, pick) ==
    IF template_type = "erd_analysis" THEN
        generate_erd_question(difficulty, Min(pick, Len(erd_scenarios)))
    ELSE IF template_type = "table_normalization" THEN
        generate_table_question(difficulty, Min(pick, Len(table_scenarios)))
    ELSE IF template_type = "uml_design" THEN
        generate_uml_question(difficulty, Min(pick, Len(uml_scenarios)))
    ELSE generate_erd_question(difficulty, Min(pick, Len(erd_scenarios)))


-----------------------------------------------------------------------------
(* question_generator.py: generate_process_flow_question,                  *)
(* generate_ui_design_question                                             *)

\* process_scenarios[i]['questions'][question_type]; two explanations quote
\* a step name in double quotes
process_scenarios ==
    <<[title |-> S("order handling process"),
       questions |-> [t \in {MC, SA, ESSAY} |->
          IF t = MC THEN
            [question |-> S("Which is the first decision step?"),
             choices |-> <<S("(1) order received"), S("(2) stock check"), S("(3) stock enough?"),
                           S("(4) payment"), S("(5) shipping")>>,
             correct_answer |-> S("(3)"),
             explanation |-> <<"Decisions are diamonds; here ", QT, "stock enough?", QT,
                               " is the first decision point.">>]
          ELSE IF t = SA THEN
            [question |-> S("Which process is added when stock is short?"),
             correct_answer |-> S("restock"),
             alternative_answers |-> <<S("reorder"), S("receiving")>>,
             explanation |-> S("A restock or reorder process is needed.")]
          ELSE
            [question |-> S("Propose improvements and exception handling."),
             model_answer |-> S("Offer substitutes, partial shipping, notifications..."),
             grading_criteria |-> <<S("exceptions identified"), S("concrete improvements"),
                                    S("customer experience")>>,
             explanation |-> S("Exceptions matter as much as the normal flow.")]]],
      [title |-> S("membership approval process"),
       questions |-> [t \in {MC, SA, ESSAY} |->
          IF t = MC THEN
            [question |-> S("How many decision steps are there?"),
             choices |-> <<S("(1) 1"), S("(2) 2"), S("(3) 3"), S("(4) 4"), S("(5) 5")>>,
             correct_answer |-> S("(2)"),
             explanation |-> <<QT, "info valid?", QT, " and ", QT, "approved?", QT,
                               " are the two decision steps.">>]
          ELSE IF t = SA THEN
            [question |-> S("Which process follows invalid information?"),
             correct_answer |-> S("request correction"),
             alternative_answers |-> <<S("re-enter"), S("correction notice")>>,
             explanation |-> S("The user is asked to correct the information.")]
          ELSE
            [question |-> S("Describe the security factors and improvements."),
             model_answer |-> S("Encryption, duplicate check, e-mail verification..."),
             grading_criteria |-> <<S("security factors"), S("improvements"), S("applicability")>>,
             explanation |-> S("Balance security and convenience.")]]]>>

\* the data both functions build when no scenario has the question type
DefaultEssay(tag) ==
    [question |-> <<"Analyse and improve this ", tag>>,
     model_answer |-> <<"Strengths, weaknesses and improvements of the ", tag>>,
     grading_criteria |-> <<S("strengths"), S("weaknesses"), S("feasible improvements")>>,
     explanation |-> S("Analyse the present state, then improve.")]

\* `pick` is the index random.choice draws among available_scenarios
generate_process_flow_question(question_type, difficulty, pick) ==
    LET available_scenarios ==
            SelectSeq(process_scenarios, LAMBDA sc : question_type \in DOMAIN sc.questions)
        scenario == IF available_scenarios = <<>> THEN process_scenarios[1]
                    ELSE available_scenarios[Min(pick, Len(available_scenarios))]
        question_data ==
            IF available_scenarios = <<>>
            THEN IF question_type = ESSAY THEN DefaultEssay("process")
                 ELSE scenario.questions[MC]   \* the first key of the dict
            ELSE scenario.questions[question_type]
    IN Update(question_data,
              [question_id   |-> <<"FLOW_", RandDigits>>,
               title         |-> scenario.title,
               scenario      |-> <<"This is the flowchart of ">> \o scenario.title,
               question_type |-> question_type,
               difficulty    |-> difficulty,
               subject_area  |-> Join(PM \o <<DASH, S("design"), GT, S("business"),
                                              S("process"), S("design")>>),
               visual_type   |-> S("flowchart"),
               visual_image  |-> Image("flowchart"),
               generated_at  |-> Now,
               points        |-> Points(difficulty)])

ui_scenarios ==
    <<[title |-> S("user registration screen"),
       questions |-> [t \in {MC, SA, ESSAY} |->
          IF t = MC THEN
            [question |-> S("Which UI element needs improvement?"),
             choices |-> <<S("(1) name field too small"), S("(2) no password confirmation"),
                           S("(3) button too small"), S("(4) no e-mail validation"),
                           S("(5) all fine")>>,
             correct_answer |-> S("(2)"),
             explanation |-> S("A registration screen needs a password confirmation.")]
          ELSE IF t = SA THEN
            [question |-> S("Which validation improves the user experience?"),
             correct_answer |-> S("real-time validation"),
             alternative_answers |-> <<S("input validation"), S("form validation")>>,
             explanation |-> S("Validate while the user types.")]
          ELSE
            [question |-> S("Propose accessibility and usability improvements."),
             model_answer |-> S("Labels, keyboard order, screen reader, contrast..."),
             grading_criteria |-> <<S("accessibility"), S("usability"), S("applicability")>>,
             explanation |-> S("Consider accessibility and usability together.")]]]>>

generate_ui_design_question(question_type, difficulty, pick) ==
    LET available_scenarios ==
            SelectSeq(ui_scenarios, LAMBDA sc : question_type \in DOMAIN sc.questions)
        scenario == IF available_scenarios = <<>> THEN ui_scenarios[1]
                    ELSE available_scenarios[Min(pick, Len(available_scenarios))]
        question_data ==
            IF available_scenarios = <<>>
            THEN IF question_type = ESSAY THEN DefaultEssay("screen")
                 ELSE scenario.questions[MC]
            ELSE scenario.questions[question_type]
    IN Update(question_data,
              [question_id   |-> <<"UI_", RandDigits>>,
               title         |-> scenario.title,
               scenario      |-> <<"This is the mockup of ">> \o scenario.title,
               question_type |-> question_type,
               difficulty    |-> difficulty,
               subject_area  |-> Join(PM \o <<DASH, S("analysis"), GT, <<"screen", "definition">> >>),
               visual_type   |-> S("ui_mockup"),
               visual_image  |-> Image("ui_mockup"),
               generated_at  |-> Now,
               points        |-> Points(difficulty)])


-----------------------------------------------------------------------------
(* json.dumps(obj, ensure_ascii=False, indent=2) and json.loads, on the    *)
(* values question records hold: a str, a list of str, a dict of those,    *)
(* a list of dicts.  The JSON text is a token sequence like every str.     *)
(* A dict is a function; its keys are written in the order of KeyOrder     *)
(* (Python writes them in insertion order, which dict equality ignores).   *)

NL == "\n"
Whitespace == {SP, NL}
ListFields == {"choices", "alternative_answers", "grading_criteria"}
KeyOrder == <<"question_type", "subject_area", "difficulty", "title", "scenario",
              "question", "choices", "correct_answer", "alternative_answers",
              "model_answer", "grading_criteria", "explanation", "points",
              "question_id", "generated_at", "visual_type", "visual_image">>

Indent(level) == [i \in 1..(2 * level) |-> SP]

\* a serializer that forgets to escape
EscapeUnsafe(s) == s

\* py_encode_basestring: " and \ and the newline are escaped
RECURSIVE Escape(_)
Escape(s) ==
    IF s = <<>> THEN <<>>
    ELSE IF Head(s) \in {QT, BS} THEN <<BS, Head(s)>> \o Escape(Tail(s))
    ELSE IF Head(s) = NL THEN <<BS, "n">> \o Escape(Tail(s))
    ELSE <<Head(s)>> \o Escape(Tail(s))

DumpsStr(s) == IF s = Null THEN <<"null">> ELSE <<QT>> \o Escape(s) \o <<QT>>

RECURSIVE DumpsItems(_, _, _)
\* items: a sequence of already encoded values, one per line at `level`
DumpsItems(items, level, open) ==
    IF items = <<>> THEN <<>>
    ELSE (IF open THEN <<>> ELSE <<",">>) \o <<NL>> \o Indent(level) \o Head(items)
         \o DumpsItems(Tail(items), level, FALSE)

DumpsList(l, level) ==
    IF l = <<>> THEN <<"[", "]">>
    ELSE <<"[">> \o DumpsItems([i \in 1..Len(l) |-> DumpsStr(l[i])], level + 1, TRUE)
         \o <<NL>> \o Indent(level) \o <<"]">>

DumpsDict(d, level) ==
    LET keys == SelectSeq(KeyOrder, LAMBDA k : k \in DOMAIN d)
        member(k) == DumpsStr(S(k)) \o <<":", SP>> \o
                     (IF k \in ListFields /\ d[k] # Null THEN DumpsList(d[k], level + 1)
                      ELSE DumpsStr(d[k]))
    IN IF keys = <<>> THEN <<"{", "}">>
       ELSE <<"{">> \o DumpsItems([i \in 1..Len(keys) |-> member(keys[i])], level + 1, TRUE)
            \o <<NL>> \o Indent(level) \o <<"}">>

\* json.dumps(questions, ensure_ascii=False, indent=2) for a list of dicts
json_dumps(l) ==
    IF l = <<>> THEN <<"[", "]">>
    ELSE <<"[">> \o DumpsItems([i \in 1..Len(l) |-> DumpsDict(l[i], 1)], 1, TRUE)
         \o <<NL, "]">>

At(t, i) == IF i \in 1..Len(t) THEN t[i] ELSE "<EOF>"
RECURSIVE SkipWs(_, _)
SkipWs(t, i) == IF At(t, i) \in Whitespace THEN SkipWs(t, i + 1) ELSE Min(i, Len(t) + 1)

Fail == [ok |-> FALSE, val |-> <<>>, next |-> 0]
Ok(v, n) == [ok |-> TRUE, val |-> v, next |-> n]

\* the closing quote of the string whose content starts at j (0: unterminated)
RECURSIVE StrEnd(_, _)
StrEnd(t, j) ==
    IF j > Len(t) THEN 0
    ELSE IF t[j] = BS THEN StrEnd(t, j + 2)
    ELSE IF t[j] = QT THEN j
    ELSE StrEnd(t, j + 1)

RECURSIVE EscapesValid(_)
EscapesValid(s) ==
    IF s = <<>> THEN TRUE
    ELSE IF Head(s) = BS
         THEN Len(s) >= 2 /\ s[2] \in {QT, BS, "n"} /\ EscapesValid(SubSeq(s, 3, Len(s)))
    ELSE Head(s) # NL /\ EscapesValid(Tail(s))

RECURSIVE Unescape(_)
Unescape(s) ==
    IF s = <<>> THEN <<>>
    ELSE IF Head(s) = BS
         THEN <<IF s[2] = "n" THEN NL ELSE s[2]>> \o Unescape(SubSeq(s, 3, Len(s)))
    ELSE <<Head(s)>> \o Unescape(Tail(s))

Unquote(body, n) == IF EscapesValid(body) THEN Ok(Unescape(body), n) ELSE Fail
StringBody(t, i, e) == IF e = 0 THEN Fail ELSE Unquote(SubSeq(t, i + 1, e - 1), e + 1)
ParseString(t, i) == IF At(t, i) # QT THEN Fail ELSE StringBody(t, i, StrEnd(t, i + 1))

\* the elements of a list of str, from the first element to the closing ]
RECURSIVE ParseElems(_, _, _)
ElemsSep(t, acc, k) ==
    IF At(t, k) = "," THEN ParseElems(t, SkipWs(t, k + 1), acc)
    ELSE IF At(t, k) = "]" THEN Ok(acc, k + 1)
    ELSE Fail
ElemsItem(t, acc, r) ==
    IF r.ok THEN ElemsSep(t, Append(acc, r.val), SkipWs(t, r.next)) ELSE Fail
ParseElems(t, i, acc) == ElemsItem(t, acc, ParseString(t, i))

\* a value: a str or a list of str
ListBody(t, j) == IF At(t, j) = "]" THEN Ok(<<>>, j + 1) ELSE ParseElems(t, j, <<>>)
ParseValue(t, i) ==
    IF At(t, i) = QT THEN ParseString(t, i)
    ELSE IF At(t, i) = "[" THEN ListBody(t, SkipWs(t, i + 1))
    ELSE IF At(t, i) = "null" THEN Ok(Null, i + 1)
    ELSE Fail

\* the members of an object, from the first key to the closing }; a repeated
\* key keeps its last value
RECURSIVE ParseMembers(_, _, _)
MemberSep(t, acc, m) ==
    IF At(t, m) = "," THEN ParseMembers(t, SkipWs(t, m + 1), acc)
    ELSE IF At(t, m) = "}" THEN Ok(acc, m + 1)
    ELSE Fail
MemberValue(t, acc, name, v) ==
    IF v.ok THEN MemberSep(t, Update(acc, name :> v.val), SkipWs(t, v.next)) ELSE Fail
MemberColon(t, acc, name, c) ==
    IF At(t, c) = ":" THEN MemberValue(t, acc, name, ParseValue(t, SkipWs(t, c + 1)))
    ELSE Fail
MemberKey(t, acc, key) ==
    IF key.ok /\ Len(key.val) = 1
    THEN MemberColon(t, acc, key.val[1], SkipWs(t, key.next))
    ELSE Fail
ParseMembers(t, i, acc) == MemberKey(t, acc, ParseString(t, i))

ObjectBody(t, j) == IF At(t, j) = "}" THEN Ok(<<>>, j + 1) ELSE ParseMembers(t, j, <<>>)
ParseObject(t, i) == IF At(t, i) = "{" THEN ObjectBody(t, SkipWs(t, i + 1)) ELSE Fail

\* the elements of a list of objects, from the first element to the closing ]
RECURSIVE ParseObjects(_, _, _)
ObjectsSep(t, acc, k) ==
    IF At(t, k) = "," THEN ParseObjects(t, SkipWs(t, k + 1), acc)
    ELSE IF At(t, k) = "]" THEN Ok(acc, k + 1)
    ELSE Fail
ObjectsItem(t, acc, r) ==
    IF r.ok THEN ObjectsSep(t, Append(acc, r.val), SkipWs(t, r.next)) ELSE Fail
ParseObjects(t, i, acc) == ObjectsItem(t, acc, ParseObject(t, i))

ObjectsBody(t, j) == IF At(t, j) = "]" THEN Ok(<<>>, j + 1) ELSE ParseObjects(t, j, <<>>)
ParseDocument(t, i) ==
    IF At(t, i) = "{" THEN ParseObject(t, i)
    ELSE IF At(t, i) = "[" THEN ObjectsBody(t, SkipWs(t, i + 1))
    ELSE Fail

Decoded(t, r) ==
    IF r.ok /\ SkipWs(t, r.next) = Len(t) + 1
    THEN [ok |-> TRUE, val |-> r.val] ELSE [ok |-> FALSE, val |-> <<>>]

\* json.loads(text): [ok, val]; ok = FALSE stands for JSONDecodeError
json_loads(t) == Decoded(t, ParseDocument(t, SkipWs(t, 1)))


-----------------------------------------------------------------------------
(* question_generator.py: BAQuestionGenerator *)

PromptSourceLimit == 4000
DefaultVisualPercent == 30

\* __init__ with the environment `e`; ctor_ok: AzureOpenAI(...) did not raise.
\* _test_connection swallows its exception and its result is not read.
\* visual_question_ratio is held in percent (0.3 is 30).
BAQuestionGenerator(e, ctor_ok) ==
    LET configured == Truthy(e.endpoint) /\ Truthy(e.key) /\ Truthy(e.deployment)
    IN [client                |-> IF configured /\ ctor_ok THEN "AzureOpenAI" ELSE None,
        api_configured        |-> configured /\ ctor_ok,
        visual_question_ratio |-> DefaultVisualPercent,
        source_content        |-> <<>>]

visual_subjects ==
    <<KW_DataModeling, KW_ProcessDesign, KW_InterfaceDesign, KW_MSADesign, KW_ScreenDef>>

\* should_generate_visual_question: the subject area names a visual subject
IsVisualSubject(subject_area) ==
    \E i \in 1..Len(visual_subjects) : Contains(subject_area, visual_subjects[i])

\* the ratio decides for every subject area
should_generate_visual_question_anywhere(gen, subject_area) ==
    IF gen.visual_question_ratio <= 0 THEN {FALSE}
    ELSE IF gen.visual_question_ratio >= 100 THEN {TRUE}
    ELSE {TRUE, FALSE}

\* should_generate_visual_question: the values random.random() < ratio can take
should_generate_visual_question(gen, subject_area) ==
    IF IsVisualSubject(subject_area)
    THEN IF gen.visual_question_ratio <= 0 THEN {FALSE}
         ELSE IF gen.visual_question_ratio >= 100 THEN {TRUE}
         ELSE {TRUE, FALSE}
    ELSE {FALSE}

\* create_question_prompt: what the prompt embeds
create_question_prompt(gen, question_type, subject_area, difficulty) ==
    [material      |-> Slice(gen.source_content, 0, PromptSourceLimit),
     question_type |-> question_type,
     subject_area  |-> subject_area,
     difficulty    |-> difficulty]

\* what the completion call can do
ApiRaise == [kind |-> "raise", text |-> <<>>]
ApiNoContent == [kind |-> "none", text |-> <<>>]      \* message.content is None
ApiText(t) == [kind |-> "text", text |-> t]

\* the stamps are added only where the response has none
StampQuestionKeeping(parsed) ==
    IF parsed.ok
    THEN [ok |-> TRUE,
          val |-> Update([generated_at |-> Now, question_id |-> <<"BA_", RandDigits>>],
                         parsed.val)]
    ELSE [ok |-> FALSE, val |-> <<>>]

\* lines 246-250 of generate_single_question: the parsed data gets its stamps
StampQuestion(parsed) ==
    IF parsed.ok
    THEN [ok |-> TRUE,
          val |-> Update(parsed.val,
                         [generated_at |-> Now, question_id |-> <<"BA_", RandDigits>>])]
    ELSE [ok |-> FALSE, val |-> <<>>]

SliceQuestion(response_text, start_idx, end_idx) ==
    IF start_idx # -1 /\ end_idx # -1
    THEN StampQuestion(json_loads(Slice(response_text, start_idx, end_idx)))
    ELSE [ok |-> FALSE, val |-> <<>>]

\* lines 234-250 of generate_single_question: [ok, val]; ok = FALSE: the
\* fallback is returned
ExtractQuestion(response_text) ==
    SliceQuestion(response_text, Find(response_text, "{"), RFind(response_text, "}") + 1)

CompletionResult(x, except_path, fallback) ==
    IF x.ok THEN [path |-> "api_parsed", record |-> x.val]
    ELSE [path |-> except_path, record |-> fallback]

\* generate_single_question after the completion call did `api`
HandleCompletion(api, question_type, subject_area, difficulty) ==
    CompletionResult(IF api.kind = "text" THEN ExtractQuestion(api.text)
                     ELSE [ok |-> FALSE, val |-> <<>>],
                     IF api.kind = "raise" THEN "fallback_api_error"
                     ELSE "fallback_bad_response",
                     generate_fallback_question(question_type, subject_area, difficulty))

\* a failed completion call is made once more before the fallback is returned
generate_single_question_retrying(gen, question_type, subject_area, difficulty, api) ==
    IF gen.client = None
    THEN [path |-> "fallback_no_client", calls |-> 0,
          record |-> generate_fallback_question(question_type, subject_area, difficulty)]
    ELSE [calls |-> IF api.kind = "raise" THEN 2 ELSE 1]
         @@ HandleCompletion(api, question_type, subject_area, difficulty)

\* generate_single_question: [path, record, calls]
generate_single_question(gen, question_type, subject_area, difficulty, api) ==
    IF gen.client = None
    THEN [path |-> "fallback_no_client", calls |-> 0,
          record |-> generate_fallback_question(question_type, subject_area, difficulty)]
    ELSE [calls |-> 1] @@ HandleCompletion(api, question_type, subject_area, difficulty)

\* generate_visual_question_by_subject: which branch the subject area takes
VisualBranch(subject_area) ==
    IF Contains(subject_area, KW_DataModeling) THEN
        IF Contains(subject_area, KW_Logical) THEN "erd"
        ELSE IF Contains(subject_area, KW_Physical) THEN "table"
        ELSE "erd_or_table"
    ELSE IF Contains(subject_area, KW_ProcessModeling) THEN
        IF Contains(subject_area, KW_Design) THEN "uml" ELSE "flow"
    ELSE IF Contains(subject_area, KW_Interface) \/ Contains(subject_area, KW_ScreenDef)
    THEN "ui"
    ELSE "text"

\* generate_visual_question_by_subject where it builds a record itself
\* (VisualBranch # "text"); rnd.template and rnd.pick are the values
\* random.choice draws
generate_visual_question_by_subject(question_type, subject_area, difficulty, rnd) ==
    LET branch == VisualBranch(subject_area)
    IN IF branch = "erd" THEN generate_visual_question("erd_analysis", difficulty, rnd.pick)
       ELSE IF branch = "table"
       THEN generate_visual_question("table_normalization", difficulty, rnd.pick)
       ELSE IF branch = "erd_or_table"
       THEN generate_visual_question(rnd.template, difficulty, rnd.pick)
       ELSE IF branch = "uml" THEN generate_visual_question("uml_design", difficulty, rnd.pick)
       ELSE IF branch = "flow"
       THEN generate_process_flow_question(question_type, difficulty, rnd.pick)
       ELSE generate_ui_design_question(question_type, difficulty, rnd.pick)

\* generate_single_question_enhanced: [path, record, calls]; rnd.visual is
\* the outcome of should_generate_visual_question
generate_single_question_enhanced(gen, question_type, subject_area, difficulty, rnd, api) ==
    IF rnd.visual /\ VisualBranch(subject_area) # "text"
    THEN [path |-> "visual", calls |-> 0,
          record |-> generate_visual_question_by_subject(question_type, subject_area,
                                                         difficulty, rnd)]
    ELSE generate_single_question(gen, question_type, subject_area, difficulty, api)

\* the random draws of one invocation
RandomDraws(gen, subject_area) ==
    [visual   : should_generate_visual_question(gen, subject_area),
     template : {"erd_analysis", "table_normalization"},
     pick     : {1, 2}]


-----------------------------------------------------------------------------
(* The environment of the generator *)

\* os.getenv: None when unset; AZURE_OPENAI_API_VERSION has a default
DefaultApiVersion == "2024-02-15-preview"
FullEnv == [endpoint |-> "https://x.openai.azure.com/", key |-> "secret",
            deployment |-> "gpt", api_version |-> DefaultApiVersion]
EnvValues == {None, "", "set"}
KeyValues == {None, "", "key-A", "key-B"}
Envs == [endpoint : EnvValues, key : KeyValues, deployment : EnvValues,
         api_version : {DefaultApiVersion, ""}]

\* the file_uploader widget: no file, or a PDF whose page k cannot be read
\* (fails_at = k; 0: every page is read)
NoFile == [name |-> None, pages |-> <<>>, fails_at |-> 0]

\* records a completion may answer with
R_wellformed ==
    [question_type |-> MC, subject_area |-> subject_areas[2], difficulty |-> EASY,
     title |-> S("a title"), scenario |-> S("a scenario"), question |-> S("a question"),
     choices |-> <<S("(1) a"), S("(2) b"), S("(3) c"), S("(4) d"), S("(5) e")>>,
     correct_answer |-> S("(1)"), explanation |-> S("because"), points |-> S("3")]
R_partial ==
    [question_type |-> SA, question |-> <<"What does ", "{", "}", " mean?">>,
     correct_answer |-> S("a dict"), question_id |-> S("Q-7"),
     generated_at |-> S("2020-01-01")]
R_untyped == [question |-> S("a question"), model_answer |-> S("an answer")]
R_empty == <<>>
ResponseRecords == {R_wellformed, R_partial, R_untyped, R_empty}

\* what a completion writes around the JSON: <<before, after>>
ResponseWrappers ==
    {<< <<>>, <<>> >>,
     << <<"Here is the question:", NL>>, <<NL, "Good luck!">> >>,
     << <<>>, <<NL, "(see ", "{", "note", "}", ")">> >>}
BrokenResponses ==
    {<<>>,
     <<"I cannot help with that.">>,
     <<"{", QT, "question", QT, ":", SP, QT, "cut off">>,
     <<"done", "}">>,
     <<"}", SP, "{">>}
ResponseTexts ==
    {w[1] \o DumpsDict(r, 0) \o w[2] : w \in ResponseWrappers, r \in ResponseRecords}
    \cup BrokenResponses
ApiOutcomes == {ApiRaise, ApiNoContent} \cup {ApiText(t) : t \in ResponseTexts}

NoRecord == <<>>
NoRequest == [question_type |-> <<>>, subject_area |-> <<>>, difficulty |-> <<>>]
NoApi == [kind |-> "not_called", text |-> <<>>]

\* the variables of the other parts, at rest
MainAtRest ==
    /\ session_state = <<>>
    /\ uploaded_file = NoFile
    /\ sliders = <<>>
    /\ button_disabled = TRUE
    /\ question_distribution = <<>>
    /\ questions = <<>>
    /\ pc = "idle"
    /\ counts = <<>>
CallAtRest ==
    /\ request = NoRequest
    /\ response = NoApi
    /\ result = NoRecord
    /\ path = "none"
    /\ call_pc = "idle"
    /\ api_calls = 0
NoTempDir == [exists |-> FALSE, files |-> {}]
FilesAtRest ==
    /\ records = <<>>
    /\ output = <<>>
    /\ temp_dir = NoTempDir

-----------------------------------------------------------------------------
(* SpecGen: invocations of generate_single_question_enhanced on a          *)
(* generator as main() or any other caller may have set it up              *)

GenPercents == {0, DefaultVisualPercent, 100}
GenSource == S("learning material")

\* one subject area for each way a subject area is treated
SubjectClass(subject_area) == <<VisualBranch(subject_area), IsVisualSubject(subject_area)>>
GenSubjects ==
    {subject_areas[i] : i \in {k \in 1..Len(subject_areas) :
        \A j \in 1..(k - 1) : SubjectClass(subject_areas[j]) # SubjectClass(subject_areas[k])}}

GenInit ==
    /\ env \in {FullEnv, [FullEnv EXCEPT !.key = None]}
    /\ \E ctor_ok \in BOOLEAN, ratio \in GenPercents :
          generator = [BAQuestionGenerator(env, ctor_ok) EXCEPT
                          !.visual_question_ratio = ratio, !.source_content = GenSource]
    /\ prompts = <<>>
    /\ MainAtRest /\ CallAtRest /\ FilesAtRest

\* the call reaches client.chat.completions.create
ReachesCompletion(gen, subject_area, rnd) ==
    gen.client # None /\ ~(rnd.visual /\ VisualBranch(subject_area) # "text")

\* what the completion call can do in a call that makes it
CallOutcomes(gen, subject_area, rnd) ==
    IF ReachesCompletion(gen, subject_area, rnd) THEN ApiOutcomes ELSE {NoApi}

\* the call has returned r
Returned(req, r, api) ==
    /\ request' = req
    /\ response' = api
    /\ api_calls' = r.calls
    /\ result' = r.record
    /\ path' = r.path
    /\ call_pc' = "returned"
    /\ prompts' = IF r.calls = 1
                  THEN <<create_question_prompt(generator, req.question_type,
                                                req.subject_area, req.difficulty)>>
                  ELSE <<>>

\* one call of generate_single_question_enhanced, from entry to return
Invoke(question_type, subject_area, difficulty, rnd, api) ==
    /\ call_pc = "idle"
    /\ Returned([question_type |-> question_type, subject_area |-> subject_area,
                 difficulty |-> difficulty],
                generate_single_question_enhanced(generator, question_type, subject_area,
                                                  difficulty, rnd, api),
                api)
    /\ UNCHANGED <<env, session_state, uploaded_file, sliders, button_disabled,
                   generator, question_distribution, questions, pc, counts, fileVars>>

GenNext ==
    \E i \in 1..Len(QuestionTypes), s \in GenSubjects, d \in 1..Len(difficulty_levels) :
       \E rnd \in RandomDraws(generator, s) :
          \E api \in CallOutcomes(generator, s, rnd) :
             Invoke(QuestionTypes[i], s, difficulty_levels[d], rnd, api)

SpecGen == GenInit /\ [][GenNext]_vars

-----------------------------------------------------------------------------
(* Claims about generate_single_question_enhanced (SpecGen) *)

\* the answer-field groups of the data model
AnswerGroup(question_type) ==
    IF question_type = MC THEN {"choices", "correct_answer"}
    ELSE IF question_type = SA THEN {"correct_answer", "alternative_answers"}
    ELSE {"model_answer", "grading_criteria"}
AnswerFields == {"choices", "correct_answer", "alternative_answers",
                 "model_answer", "grading_criteria"}
HasOwnAnswerGroup(q) ==
    /\ "question_type" \in DOMAIN q
    /\ \E i \in 1..Len(QuestionTypes) :
          /\ q["question_type"] = QuestionTypes[i]
          /\ \A f \in AnswerGroup(QuestionTypes[i]) : FieldTruthy(q, f)
          /\ \A f \in AnswerFields \ AnswerGroup(QuestionTypes[i]) : f \notin DOMAIN q

\* C3: every record generate_single_question_enhanced returns has exactly the
\* answer-field group of its own question_type: choices and correct_answer for
\* multiple choice, correct_answer and alternative_answers for short answer,
\* model_answer and grading_criteria for essay, and no field of another group.
C3_AnswerGroupOfOwnType == call_pc = "returned" => HasOwnAnswerGroup(result)

\* the response text has no '{', or no '}', or the slice from the first '{'
\* through the last '}' is not valid JSON
NoJsonIn(t) ==
    \/ ~\E i \in 1..Len(t) : t[i] = "{"
    \/ ~\E i \in 1..Len(t) : t[i] = "}"
    \/ ~json_loads(Slice(t, Find(t, "{"), RFind(t, "}") + 1)).ok

\* generate_single_question ran (no template was used) and failed
QuestionCallFailed ==
    /\ call_pc = "returned"
    /\ path # "visual"
    /\ \/ generator.client = None
       \/ response.kind \in {"raise", "none"}
       \/ response.kind = "text" /\ NoJsonIn(response.text)

\* the hardcoded fallback of the requested type, carrying the request
IsStaticFallback(q, req) ==
    /\ q["question_type"] = req.question_type
    /\ q["subject_area"] = req.subject_area
    /\ q["difficulty"] = req.difficulty
    /\ q["title"] = req.question_type \o <<SP, "problem">>
    /\ q["scenario"] = S("an ordinary business situation")
    /\ q["question_id"] = <<"FALLBACK_", RandDigits>>
    /\ q["points"] = Points(req.difficulty)
    /\ \A f \in DOMAIN fallback_questions[req.question_type] :
          q[f] = fallback_questions[req.question_type][f]
    /\ DOMAIN q = DOMAIN fallback_questions[req.question_type]
                     \cup {"question_type", "subject_area", "difficulty", "title",
                           "scenario", "question_id", "generated_at", "points"}

\* C4: generate_single_question always returns a record, and when the client is
\* missing, the completion call raises, the response has no '{' or no '}', or
\* the extracted slice is not valid JSON, the record is the static fallback of
\* the requested type with the requested type, subject area and difficulty.
C4_FailureReturnsFallback ==
    /\ (call_pc = "returned" /\ path # "visual") => "question_id" \in DOMAIN result
    /\ QuestionCallFailed => IsStaticFallback(result, request)

\* an essay was asked for and the response opened a JSON object without closing it
C4_Witness ==
    /\ QuestionCallFailed
    /\ request.question_type = ESSAY
    /\ response.kind = "text"
    /\ \E i \in 1..Len(response.text) : response.text[i] = "{"
    /\ ~\E i \in 1..Len(response.text) : response.text[i] = "}"

\* C16: a call of generate_single_question makes at most one completion call,
\* none without a client, and exactly one when the completion call failed and
\* the fallback was returned.
C16_AtMostOneCompletionCall ==
    (call_pc = "returned" /\ path # "visual") =>
        /\ api_calls <= 1
        /\ generator.client = None => api_calls = 0
        /\ generator.client # None => api_calls = 1
        /\ api_calls = Len(prompts)

\* the completion call raised and the fallback was returned after that one call
C16_Witness ==
    /\ call_pc = "returned"
    /\ response.kind = "raise"
    /\ path = "fallback_api_error"
    /\ api_calls = 1
    /\ result["question_id"] = <<"FALLBACK_", RandDigits>>

\* q is the parsed object with the two stamps set and every other key as parsed
StampedCopyOf(parsed, q) ==
    /\ DOMAIN q = DOMAIN parsed \cup {"generated_at", "question_id"}
    /\ q["generated_at"] = Now
    /\ q["question_id"] = <<"BA_", RandDigits>>
    /\ \A k \in DOMAIN parsed \ {"generated_at", "question_id"} : q[k] = parsed[k]

\* the object the slice from the first '{' through the last '}' parses to
ParsedSlice(t) == json_loads(Slice(t, Find(t, "{"), RFind(t, "}") + 1))

ReturnsParsed(parsed) == parsed.ok => (path = "api_parsed" /\ StampedCopyOf(parsed.val, result))

\* C18: when the response holds a '{' and the slice from the first '{' through
\* the last '}' is valid JSON, generate_single_question returns the parsed
\* object with generated_at and question_id set anew and every other field as
\* in the response.
C18_ReturnsParsedRecord ==
    (call_pc = "returned" /\ response.kind = "text" /\ Find(response.text, "{") # -1) =>
        ReturnsParsed(ParsedSlice(response.text))

\* the response wraps the object in text and brings its own id and time
C18_Witness ==
    /\ call_pc = "returned"
    /\ path = "api_parsed"
    /\ response.text[1] # "{"
    /\ response.text[Len(response.text)] # "}"
    /\ "question_id" \in DOMAIN ParsedSlice(response.text).val
    /\ ParsedSlice(response.text).val["question_id"] = S("Q-7")
    /\ result["question_id"] # S("Q-7")
    /\ result["question"] = ParsedSlice(response.text).val["question"]

\* the call returned a record that no completion produced: a template record
\* of the visual path or the static fallback
BuiltWithoutCompletion == call_pc = "returned" /\ path # "api_parsed"

\* C21: the record generate_single_question_enhanced returns without use of the
\* completion (the fallback or a record of the visual path) has the
\* question_type that was requested.
C21_TemplateKeepsRequestedType ==
    BuiltWithoutCompletion => result["question_type"] = request.question_type

\* the subject area names the interface or the screen definition
NamesInterface(subject_area) ==
    Contains(subject_area, KW_Interface) \/ Contains(subject_area, KW_ScreenDef)

\* C23: for every configured subject area that contains the interface or the
\* screen-definition keyword, generate_visual_question_by_subject returns the
\* UI-design question, whose visual_type is ui_mockup.
C23_InterfaceSubjectsGetMockup ==
    (call_pc = "returned" /\ path = "visual" /\ NamesInterface(request.subject_area)) =>
        /\ result["visual_type"] = S("ui_mockup")
        /\ result["question_id"] = <<"UI_", RandDigits>>

\* C24: generate_single_question_enhanced takes the visual path only for a
\* subject area that contains a visual-subject keyword, never when
\* visual_question_ratio is 0, and always for such a subject area when
\* visual_question_ratio is 1; otherwise generate_single_question answers.
C24_VisualPathOnlyForVisualSubjects ==
    call_pc = "returned" =>
        /\ path = "visual" =>
              \E i \in 1..Len(visual_subjects) :
                  Contains(request.subject_area, visual_subjects[i])
        /\ generator.visual_question_ratio = 0 => path # "visual"
        /\ (generator.visual_question_ratio = 100
               /\ \E i \in 1..Len(visual_subjects) :
                     Contains(request.subject_area, visual_subjects[i]))
              => path = "visual"
        /\ path # "visual" =>
              (path \in {"fallback_no_client", "fallback_api_error",
                         "fallback_bad_response", "api_parsed"}
                  /\ (generator.client # None <=> api_calls = 1))

\* with ratio 1 a visual subject got its template record, no completion asked
C24_Witness ==
    /\ call_pc = "returned"
    /\ generator.visual_question_ratio = 100
    /\ generator.client # None
    /\ path = "visual"
    /\ api_calls = 0
    /\ "visual_image" \in DOMAIN result

-----------------------------------------------------------------------------
(* main_app.py: the configuration check and the distribution of main()     *)

\* configured_vars = {k: bool(v)}; the status when one variable being set is
\* taken for all of them being set
check_azure_config_any(e) ==
    [configured_vars |->
        [OPENAI_ENDPOINT |-> Truthy(e.endpoint), OPENAI_KEY |-> Truthy(e.key),
         CHAT_MODEL3 |-> Truthy(e.deployment),
         AZURE_OPENAI_API_VERSION |-> Truthy(e.api_version)],
     azure_configured |-> Truthy(e.endpoint) \/ Truthy(e.key) \/ Truthy(e.deployment)
                          \/ Truthy(e.api_version),
     endpoint |-> IF Truthy(e.endpoint) THEN <<e.endpoint, "...">> ELSE None,
     deployment_name |-> e.deployment]

\* the shortened endpoint of the status: AZURE_OPENAI_ENDPOINT[:30] + '...'
\* (the endpoints of the model are shorter than 30 characters)
EndpointShown(v) == IF Truthy(v) THEN <<v, "...">> ELSE None

\* a status that shows the key the way it shows the endpoint
check_azure_config_showing_key(e) ==
    [configured_vars |->
        [OPENAI_ENDPOINT |-> Truthy(e.endpoint), OPENAI_KEY |-> Truthy(e.key),
         CHAT_MODEL3 |-> Truthy(e.deployment),
         AZURE_OPENAI_API_VERSION |-> Truthy(e.api_version)],
     azure_configured |-> Truthy(e.endpoint) /\ Truthy(e.key) /\ Truthy(e.deployment)
                          /\ Truthy(e.api_version),
     endpoint |-> EndpointShown(e.key),
     deployment_name |-> e.deployment]

\* check_azure_config: azure_configured = all(configured_vars.values());
\* env_file_exists (os.path.exists('.env')) reads no setting and is left out
check_azure_config(e) ==
    [configured_vars |->
        [OPENAI_ENDPOINT |-> Truthy(e.endpoint), OPENAI_KEY |-> Truthy(e.key),
         CHAT_MODEL3 |-> Truthy(e.deployment),
         AZURE_OPENAI_API_VERSION |-> Truthy(e.api_version)],
     azure_configured |-> Truthy(e.endpoint) /\ Truthy(e.key) /\ Truthy(e.deployment)
                          /\ Truthy(e.api_version),
     endpoint |-> EndpointShown(e.endpoint),
     deployment_name |-> e.deployment]

\* the sidebar sliders
DEFAULT_QUESTION_COUNT == 50
MinQuestions == 10
MaxQuestions == 200
QuestionStep == 10
MaxPercent == 100
DefaultSliders ==
    [total_questions |-> DEFAULT_QUESTION_COUNT, multiple_choice_ratio |-> 60,
     short_answer_ratio |-> 25, easy_ratio |-> 50, medium_ratio |-> 35,
     visual_ratio |-> DefaultVisualPercent]
TotalChoices ==
    {MinQuestions + QuestionStep * k : k \in 0..((MaxQuestions - MinQuestions) \div QuestionStep)}

\* int(a * ratio / 100) for a >= 0 and ratio >= 0: the float quotient of two
\* ints is correctly rounded, so int() of it is the integer quotient
IntPercent(a, ratio) == (a * ratio) \div 100

\* the three counts with each of them truncated on its own
TypeCountsTruncated(total_questions, multiple_choice_ratio, short_answer_ratio) ==
    [mc_count    |-> IntPercent(total_questions, multiple_choice_ratio),
     sa_count    |-> IntPercent(total_questions, short_answer_ratio),
     essay_count |-> IntPercent(total_questions,
                                Max(0, 100 - multiple_choice_ratio - short_answer_ratio))]

\* main(): mc_count, sa_count, essay_count
TypeCounts(total_questions, multiple_choice_ratio, short_answer_ratio) ==
    [mc_count    |-> IntPercent(total_questions, multiple_choice_ratio),
     sa_count    |-> IntPercent(total_questions, short_answer_ratio),
     essay_count |-> total_questions
                        - IntPercent(total_questions, multiple_choice_ratio)
                        - IntPercent(total_questions, short_answer_ratio)]

\* main(): easy_count, medium_count, hard_count of a type with `count` questions
DifficultyCounts(count, easy_ratio, medium_ratio) ==
    <<IntPercent(count, easy_ratio),
      IntPercent(count, medium_ratio),
      count - IntPercent(count, easy_ratio) - IntPercent(count, medium_ratio)>>

\* for _ in range(n): n <= 0 runs the body no time
Repeat(x, n) == [k \in 1..n |-> x]

DifficultyTuples(q_type, diff_counts) ==
    Repeat(<<q_type, EASY>>, diff_counts[1])
        \o Repeat(<<q_type, MEDIUM>>, diff_counts[2])
        \o Repeat(<<q_type, HARD>>, diff_counts[3])

\* one round of `for q_type, count in [...]`: nothing unless count > 0
TypeTuples(q_type, count, easy_ratio, medium_ratio) ==
    IF count > 0
    THEN DifficultyTuples(q_type, DifficultyCounts(count, easy_ratio, medium_ratio))
    ELSE <<>>

\* random.choice(generator.subject_areas) for the k-th tuple, drawn by `seed`
random_choice(seed, k) == subject_areas[((seed + k) % Len(subject_areas)) + 1]

WithSubjects(tuples, seed) ==
    [k \in 1..Len(tuples) |-> <<tuples[k][1], random_choice(seed, k), tuples[k][2]>>]

\* main(): question_distribution
BuildDistribution(c, sl, seed) ==
    WithSubjects(TypeTuples(MC, c.mc_count, sl.easy_ratio, sl.medium_ratio)
                    \o TypeTuples(SA, c.sa_count, sl.easy_ratio, sl.medium_ratio)
                    \o TypeTuples(ESSAY, c.essay_count, sl.easy_ratio, sl.medium_ratio),
                 seed)

-----------------------------------------------------------------------------
(* main_app.py: main(), one action for each script run an interaction starts *)

\* the draws and completion outcomes of one generation run
MaxSeed == 0
ApiPatterns == {"ok", "mixed", "raise"}
Scenarios == [seed : 0..MaxSeed, api : ApiPatterns, visual : BOOLEAN]

MainResponse == <<"Sure:", NL>> \o DumpsDict(R_untyped, 0)
PatternOutcome(pattern, k) ==
    IF pattern = "ok" \/ (pattern = "mixed" /\ k % 2 = 0)
    THEN ApiText(MainResponse) ELSE ApiRaise
PatternDraw(gen, subject_area, want, k) ==
    [visual   |-> IF want \in should_generate_visual_question(gen, subject_area)
                  THEN want ELSE ~want,
     template |-> IF k % 2 = 0 THEN "erd_analysis" ELSE "table_normalization",
     pick     |-> (k % 2) + 1]

\* extract_pdf_content: the text of the pages, each followed by a newline
RECURSIVE ExtractedText(_)
ExtractedText(pages) ==
    IF pages = <<>> THEN <<>> ELSE Head(pages) \o <<NL>> \o ExtractedText(Tail(pages))

\* the text of the pages read before the failing one is kept
extract_pdf_content_partial(gen, file) ==
    IF file.fails_at = 0
    THEN [gen EXCEPT !.source_content = ExtractedText(file.pages)]
    ELSE [gen EXCEPT !.source_content = ExtractedText(SubSeq(file.pages, 1, file.fails_at - 1))]

\* extract_pdf_content: the value returned (None after the except branch)
ExtractReturn(file) == IF file.fails_at = 0 THEN ExtractedText(file.pages) ELSE None

\* extract_pdf_content: the generator after the call
extract_pdf_content(gen, file) ==
    IF file.fails_at = 0
    THEN [gen EXCEPT !.source_content = ExtractedText(file.pages)]
    ELSE gen

\* no generator is bound in a run without an uploaded file
NoGenerator == [client |-> None, api_configured |-> FALSE,
                visual_question_ratio |-> 0, source_content |-> <<>>]

\* main(): the generator of the preview expander
Preview(file, sl, ctor_ok) ==
    IF file.name = None THEN NoGenerator
    ELSE extract_pdf_content([BAQuestionGenerator(env, ctor_ok) EXCEPT
                                 !.visual_question_ratio = sl.visual_ratio], file)

\* what every run of main() does with the widgets
Render(file, sl, gen) ==
    /\ uploaded_file' = file
    /\ sliders' = sl
    /\ generator' = gen
    /\ button_disabled' = (file.name = None \/ ~check_azure_config(env).azure_configured)
    /\ UNCHANGED <<env, genVars, fileVars>>

\* a run that does not enter the generation branch
NoGeneration ==
    /\ question_distribution' = <<>>
    /\ questions' = <<>>
    /\ prompts' = <<>>
    /\ counts' = <<>>
    /\ pc' = "rendered"

\* the `for i, (q_type, subject, difficulty) in enumerate(...)` loop
GenerateQuestions(gen, dist, sc) ==
    [k \in 1..Len(dist) |->
        generate_single_question_enhanced(gen, dist[k][1], dist[k][2], dist[k][3],
                                          PatternDraw(gen, dist[k][2], sc.visual, k),
                                          PatternOutcome(sc.api, k))]

PromptsSent(gen, dist, sent) ==
    [j \in 1..Len(sent) |->
        create_question_prompt(gen, dist[sent[j]][1], dist[sent[j]][2], dist[sent[j]][3])]

\* the loop is over: the results go to the session state
StoreQuestions(gen, c, dist, runs) ==
    /\ counts' = c
    /\ question_distribution' = dist
    /\ questions' = [k \in 1..Len(runs) |-> runs[k].record]
    /\ prompts' = PromptsSent(gen, dist, SelectSeq([k \in 1..Len(runs) |-> k],
                                                   LAMBDA k : runs[k].calls = 1))
    /\ session_state' = Update(session_state,
                               [questions |-> [k \in 1..Len(runs) |-> runs[k].record],
                                generation_complete |-> TRUE])
    /\ pc' = "generated"

Distribute(gen, c, dist, sc) == StoreQuestions(gen, c, dist, GenerateQuestions(gen, dist, sc))

\* the else branch of the generate button
GenerationBranch(gen, sc) ==
    /\ Render(uploaded_file, sliders, gen)
    /\ IF ~gen.api_configured
       THEN /\ question_distribution' = <<>>
            /\ questions' = <<>>
            /\ prompts' = <<>>
            /\ counts' = <<>>
            /\ pc' = "stopped"
            /\ UNCHANGED session_state
       ELSE Distribute(gen,
                       TypeCounts(sliders.total_questions, sliders.multiple_choice_ratio,
                                  sliders.short_answer_ratio),
                       BuildDistribution(
                           TypeCounts(sliders.total_questions,
                                      sliders.multiple_choice_ratio,
                                      sliders.short_answer_ratio),
                           sliders, sc.seed),
                       sc)

\* the user picks a PDF (or removes it)
Upload(file, ctor_ok) ==
    /\ file # uploaded_file
    /\ Render(file, sliders, Preview(file, sliders, ctor_ok))
    /\ NoGeneration
    /\ UNCHANGED session_state

\* the user moves the sliders
MoveSliders(sl, ctor_ok) ==
    /\ sl # sliders
    /\ Render(uploaded_file, sl, Preview(uploaded_file, sl, ctor_ok))
    /\ NoGeneration
    /\ UNCHANGED session_state

\* the generate button; a disabled button takes no click
ClickGenerate(ctor_ok, sc) ==
    /\ ~button_disabled
    /\ GenerationBranch([BAQuestionGenerator(env, ctor_ok) EXCEPT
                            !.visual_question_ratio = sliders.visual_ratio], sc)

\* the condition of the results section
ResultsShown(state) ==
    "questions" \in DOMAIN state /\ Get(state, "generation_complete", FALSE) = TRUE

\* a regenerate button that forgets the flag
ClickRegenerateKeeping(ctor_ok) ==
    /\ ResultsShown(session_state)
    /\ session_state' = [k \in DOMAIN session_state \ {"questions"} |-> session_state[k]]
    /\ Render(uploaded_file, sliders, Preview(uploaded_file, sliders, ctor_ok))
    /\ NoGeneration

\* the regenerate button of the results section, and the st.rerun() it ends with
ClickRegenerate(ctor_ok) ==
    /\ ResultsShown(session_state)
    /\ session_state' = [k \in DOMAIN session_state \ {"questions", "generation_complete"}
                            |-> session_state[k]]
    /\ Render(uploaded_file, sliders, Preview(uploaded_file, sliders, ctor_ok))
    /\ NoGeneration

\* a download button of the results section: the script runs again
ClickDownload(ctor_ok) ==
    /\ ResultsShown(session_state)
    /\ Render(uploaded_file, sliders, Preview(uploaded_file, sliders, ctor_ok))
    /\ NoGeneration
    /\ UNCHANGED session_state

\* the button of the demo tab
ClickDemo(selected_template, difficulty, pick, ctor_ok) ==
    /\ session_state' = Update(session_state,
                               [demo_question |->
                                   generate_visual_question(selected_template, difficulty, pick)])
    /\ Render(uploaded_file, sliders, Preview(uploaded_file, sliders, ctor_ok))
    /\ NoGeneration

\* what the model's user does
SamplePdf == [name |-> "ba.pdf", pages |-> <<S("chapter one"), S("chapter two")>>,
              fails_at |-> 0]
BrokenPdf == [SamplePdf EXCEPT !.name = "scan.pdf", !.fails_at = 2]
Files == {NoFile, SamplePdf, BrokenPdf}
SliderSettings ==
    {DefaultSliders,
     [total_questions |-> 10, multiple_choice_ratio |-> 60, short_answer_ratio |-> 50,
      easy_ratio |-> 50, medium_ratio |-> 35, visual_ratio |-> 100],
     [total_questions |-> 20, multiple_choice_ratio |-> 50, short_answer_ratio |-> 50,
      easy_ratio |-> 80, medium_ratio |-> 80, visual_ratio |-> 0]}
DemoChoices == {<<"erd_analysis", MEDIUM, 1>>, <<"uml_design", HARD, 1>>}

Init ==
    /\ env \in Envs
    /\ session_state = <<>>
    /\ uploaded_file = NoFile
    /\ sliders = DefaultSliders
    /\ button_disabled = TRUE
    /\ generator = NoGenerator
    /\ question_distribution = <<>>
    /\ questions = <<>>
    /\ prompts = <<>>
    /\ counts = <<>>
    /\ pc = "rendered"
    /\ CallAtRest /\ FilesAtRest

Next ==
    \/ \E file \in Files, ctor_ok \in BOOLEAN : Upload(file, ctor_ok)
    \/ \E sl \in SliderSettings, ctor_ok \in BOOLEAN : MoveSliders(sl, ctor_ok)
    \/ \E ctor_ok \in BOOLEAN, sc \in Scenarios : ClickGenerate(ctor_ok, sc)
    \/ \E ctor_ok \in BOOLEAN : ClickRegenerate(ctor_ok)
    \/ \E ctor_ok \in BOOLEAN : ClickDownload(ctor_ok)
    \/ \E d \in DemoChoices, ctor_ok \in BOOLEAN : ClickDemo(d[1], d[2], d[3], ctor_ok)

Spec == Init /\ [][Next]_vars

-----------------------------------------------------------------------------
(* Claims about a run of main() (Spec) *)

\* C2: for every slider combination the number of tuples placed in
\* question_distribution, and with it the number of questions generated and
\* stored in the session state, equals total_questions.
C2_DistributionMatchesTotal ==
    pc = "generated" =>
        /\ Len(question_distribution) = sliders.total_questions
        /\ Len(questions) = sliders.total_questions
        /\ Len(session_state["questions"]) = sliders.total_questions

\* C5: in a generation run after a PDF was uploaded, the generator that builds
\* the prompts has source_content equal to the text extracted from that PDF,
\* and every prompt embeds the first 4000 characters of it.
C5_PromptsEmbedUploadedText ==
    (pc = "generated" /\ uploaded_file.fails_at = 0) =>
        /\ generator.source_content = ExtractedText(uploaded_file.pages)
        /\ \A k \in 1..Len(prompts) :
              prompts[k].material
                  = Slice(ExtractedText(uploaded_file.pages), 0, PromptSourceLimit)

\* a required configuration value is missing
ConfigMissing == ~Truthy(env.endpoint) \/ ~Truthy(env.key) \/ ~Truthy(env.deployment)

\* C9: when the endpoint, the key or the deployment name is missing, the
\* generate button is disabled, no question is ever generated, the session
\* state never receives 'questions', and every run of the UI completes.
C9_MissingConfigDisablesGeneration ==
    ConfigMissing =>
        /\ button_disabled
        /\ Len(questions) = 0
        /\ Len(question_distribution) = 0
        /\ "questions" \notin DOMAIN session_state
        /\ pc = "rendered"

\* without a key the user uploaded a PDF, moved the sliders and used the demo tab
C9_Witness ==
    /\ ConfigMissing
    /\ Truthy(env.endpoint) /\ Truthy(env.deployment)
    /\ uploaded_file.name # None
    /\ sliders # DefaultSliders
    /\ "demo_question" \in DOMAIN session_state

\* the str values a status holds
StatusStrings(status) ==
    {status.deployment_name}
        \cup (IF status.endpoint = None THEN {}
              ELSE {status.endpoint[i] : i \in 1..Len(status.endpoint)})

\* C28: the status check_azure_config returns depends on the API key only
\* through whether it is set: configurations that differ only in a non-empty
\* key value have the same status, and the key value is no part of the status.
C28_StatusIndependentOfKey ==
    Truthy(env.key) =>
        /\ \A k \in KeyValues :
              Truthy(k) => check_azure_config([env EXCEPT !.key = k])
                              = check_azure_config(env)
        /\ check_azure_config(env).configured_vars.OPENAI_KEY
        /\ env.key \notin StatusStrings(check_azure_config(env))

\* a complete configuration with the second key: the status enabled the button
C28_Witness ==
    /\ env.key = "key-B"
    /\ check_azure_config(env).azure_configured
    /\ check_azure_config(env).endpoint = <<"set", "...">>
    /\ uploaded_file.name # None
    /\ ~button_disabled

\* A run of main() is one step: Streamlit stopping a script between two of its
\* statements is outside the source and is not modelled.
\* the two result keys of a session state
ResultKeys(state) == DOMAIN state \cap {"questions", "generation_complete"}
ResultValues(state) == [k \in ResultKeys(state) |-> state[k]]

\* C20: across the runs of the UI the session state holds 'questions' exactly
\* when it holds 'generation_complete'; a run changes them only by storing both
\* after the generation loop has produced a record for every tuple, or by
\* removing both on the regenerate button, after which no results are shown.
C20_ResultKeysTogether ==
    /\ []("questions" \in DOMAIN session_state
             <=> "generation_complete" \in DOMAIN session_state)
    /\ [][ResultValues(session_state') # ResultValues(session_state) =>
             \/ /\ pc' = "generated"
                /\ ResultsShown(session_state')
                /\ session_state'["questions"] = questions'
                /\ Len(questions') = Len(question_distribution')
             \/ /\ ResultsShown(session_state)
                /\ ResultKeys(session_state') = {}
                /\ ~ResultsShown(session_state')]_vars

\* a generation has stored its results in a session that holds a demo question
C20_Witness ==
    /\ pc = "generated"
    /\ ResultsShown(session_state)
    /\ "demo_question" \in DOMAIN session_state
    /\ Len(session_state["questions"]) = sliders.total_questions

-----------------------------------------------------------------------------
(* SpecLoop: the generation branch of main(), one step for each call and    *)
(* each append of the loop over question_distribution                       *)

LoopSliders == {[DefaultSliders EXCEPT !.total_questions = MinQuestions]}
LoopOutcomes == {ApiText(MainResponse), ApiRaise}

LoopInit ==
    /\ env = FullEnv
    /\ session_state = <<>>
    /\ uploaded_file = SamplePdf
    /\ sliders \in LoopSliders
    /\ button_disabled = FALSE
    /\ generator = NoGenerator
    /\ question_distribution = <<>>
    /\ questions = <<>>
    /\ prompts = <<>>
    /\ counts = <<>>
    /\ pc = "rendered"
    /\ CallAtRest /\ FilesAtRest

\* a loop that takes the tuples from the end of the list
NextTupleReversed(dist, done) == dist[Len(dist) - Len(done)]

\* `for i, (q_type, subject, difficulty) in enumerate(question_distribution)`:
\* the tuple of the round that follows the records in `done`
NextTuple(dist, done) == dist[Len(done) + 1]

RequestOf(tuple) ==
    [question_type |-> tuple[1], subject_area |-> tuple[2], difficulty |-> tuple[3]]

\* _test_connection: one completion call, True unless it raises
test_connection(api) == api.kind # "raise"

\* the generate button: the generator (its constructor makes the connection
\* test with outcome `test` when it has a client), then either the
\* connection-failure error and return, or question_distribution and
\* questions = []
BeginGeneration(seed, ctor_ok, test) ==
    /\ pc = "rendered"
    /\ generator' = [BAQuestionGenerator(env, ctor_ok) EXCEPT
                        !.visual_question_ratio = sliders.visual_ratio]
    /\ response' = IF BAQuestionGenerator(env, ctor_ok).client # None THEN test ELSE NoApi
    /\ path' = IF BAQuestionGenerator(env, ctor_ok).client # None
               THEN "connection_test" ELSE "none"
    /\ IF BAQuestionGenerator(env, ctor_ok).api_configured
       THEN /\ counts' = TypeCounts(sliders.total_questions, sliders.multiple_choice_ratio,
                                    sliders.short_answer_ratio)
            /\ question_distribution' =
                   BuildDistribution(TypeCounts(sliders.total_questions,
                                                sliders.multiple_choice_ratio,
                                                sliders.short_answer_ratio),
                                     sliders, seed)
            /\ questions' = <<>>
            /\ pc' = "generating"
       ELSE /\ pc' = "stopped"
            /\ UNCHANGED <<counts, question_distribution, questions>>
    /\ UNCHANGED <<env, session_state, uploaded_file, sliders, button_disabled, prompts,
                   request, result, call_pc, api_calls, fileVars>>

\* a round of the loop enters generate_single_question_enhanced
StartCall ==
    /\ pc = "generating"
    /\ call_pc = "idle"
    /\ Len(questions) < Len(question_distribution)
    /\ request' = RequestOf(NextTuple(question_distribution, questions))
    /\ call_pc' = "calling"
    /\ UNCHANGED <<mainVars, response, result, path, api_calls, fileVars>>

\* generate_single_question_enhanced returns r
ReturnCall(r, api) ==
    /\ response' = api
    /\ api_calls' = r.calls
    /\ result' = r.record
    /\ path' = r.path
    /\ call_pc' = "returned"
    /\ prompts' = IF r.calls = 1
                  THEN Append(prompts,
                              create_question_prompt(generator, request.question_type,
                                                     request.subject_area, request.difficulty))
                  ELSE prompts
    /\ UNCHANGED <<env, session_state, uploaded_file, sliders, button_disabled, generator,
                   question_distribution, questions, pc, counts, request, fileVars>>

EndCall(rnd, api) ==
    /\ pc = "generating"
    /\ call_pc = "calling"
    /\ ReturnCall(generate_single_question_enhanced(generator, request.question_type,
                                                    request.subject_area,
                                                    request.difficulty, rnd, api),
                  IF ReachesCompletion(generator, request.subject_area, rnd)
                  THEN api ELSE NoApi)

\* questions.append(question)
AppendQuestion ==
    /\ pc = "generating"
    /\ call_pc = "returned"
    /\ questions' = Append(questions, result)
    /\ call_pc' = "idle"
    /\ UNCHANGED <<env, session_state, uploaded_file, sliders, button_disabled, generator,
                   question_distribution, prompts, pc, counts, request, response, result,
                   path, api_calls, fileVars>>

\* the loop is over: lines 916-917
FinishGeneration ==
    /\ pc = "generating"
    /\ call_pc = "idle"
    /\ Len(questions) = Len(question_distribution)
    /\ session_state' = Update(session_state,
                               [questions |-> questions, generation_complete |-> TRUE])
    /\ pc' = "generated"
    /\ UNCHANGED <<env, uploaded_file, sliders, button_disabled, generator,
                   question_distribution, questions, prompts, counts, genVars, fileVars>>

\* the draws of the round in progress: the visual branch taken or not
LoopDraws ==
    {PatternDraw(generator, request.subject_area, want, Len(questions) + 1) :
        want \in BOOLEAN}

LoopNext ==
    \/ \E seed \in 0..MaxSeed, ctor_ok \in BOOLEAN, test \in LoopOutcomes :
          BeginGeneration(seed, ctor_ok, test)
    \/ StartCall
    \/ \E rnd \in LoopDraws, api \in LoopOutcomes :
          EndCall(rnd, api)
    \/ AppendQuestion
    \/ FinishGeneration

SpecLoop == LoopInit /\ [][LoopNext]_vars

\* the place of a value in a tuple of the constructor
RankIn(seq, x) == CHOOSE k \in 1..Len(seq) : seq[k] = x

\* tuple a may stand before tuple b in question_distribution
InOrder(a, b) ==
    \/ RankIn(QuestionTypes, a[1]) < RankIn(QuestionTypes, b[1])
    \/ /\ a[1] = b[1]
       /\ RankIn(difficulty_levels, a[3]) <= RankIn(difficulty_levels, b[3])

\* C15: question_distribution lists the multiple-choice tuples, then the
\* short-answer, then the essay tuples, each type in the order easy, medium,
\* hard; the call in progress is the one for the tuple after the records
\* appended so far, a call starts only when the record of the call before it
\* has been appended, and a record is appended to questions, behind the records
\* of the tuples before it, only as the record returned for its tuple.
C15_GeneratedInOrder ==
    /\ [](/\ \A i, j \in 1..Len(question_distribution) :
                i < j => InOrder(question_distribution[i], question_distribution[j])
          /\ Len(questions) <= Len(question_distribution)
          /\ call_pc \in {"calling", "returned"} =>
                /\ Len(questions) < Len(question_distribution)
                /\ request = RequestOf(question_distribution[Len(questions) + 1])
          /\ (call_pc = "idle" /\ Len(questions) > 0) =>
                /\ questions[Len(questions)] = result
                /\ request = RequestOf(question_distribution[Len(questions)])
          /\ pc = "generated" =>
                /\ Len(questions) = Len(question_distribution)
                /\ session_state["questions"] = questions)
    /\ [][/\ request' # request => (call_pc = "idle" /\ call_pc' = "calling")
          /\ questions' # questions =>
                \/ questions' = <<>>
                \/ /\ call_pc = "returned"
                   /\ questions' = Append(questions, result)
                   /\ request = RequestOf(question_distribution[Len(questions')])]_vars

\* the whole list has been generated, with a record of each kind in it
C15_Witness ==
    /\ pc = "generated"
    /\ Len(questions) = sliders.total_questions
    /\ \E i, j, k \in 1..Len(questions) :
          /\ "visual_image" \in DOMAIN questions[i]
          /\ questions[j] = StampQuestion([ok |-> TRUE, val |-> R_untyped]).val
          /\ questions[k] = generate_fallback_question(question_distribution[k][1],
                                                       question_distribution[k][2],
                                                       question_distribution[k][3])

\* the constructor of the run made its connection test and the test failed
ConnectionTestFailed == path = "connection_test" /\ ~test_connection(response)

\* C26: when the connection test made while the generator is constructed
\* fails, the generation run is stopped with the connection-failure error, no
\* question is generated and the session state is as it was.
C26_FailedConnectionTestStopsRun ==
    ConnectionTestFailed =>
        /\ pc = "stopped"
        /\ questions = <<>>
        /\ question_distribution = <<>>
        /\ session_state = <<>>

-----------------------------------------------------------------------------
(* SpecExtract: extract_pdf_content on a generator that may hold the text   *)
(* of an earlier upload                                                     *)

MaxPages == 2
PageTexts == {S("chapter one"), S("chapter two"), <<>>}
PageLists == UNION {[1..n -> PageTexts] : n \in 0..MaxPages}
\* fails_at = k: reading page k raises (k = 1 also stands for a file
\* PdfReader cannot open)
ExtractFiles ==
    UNION {{[name |-> "ba.pdf", pages |-> p, fails_at |-> k] : k \in 0..Max(1, Len(p))} :
              p \in PageLists}

ExtractInit ==
    /\ env = FullEnv
    /\ generator \in {[BAQuestionGenerator(env, TRUE) EXCEPT !.source_content = c] :
                         c \in {<<>>, GenSource}}
    /\ prompts = <<>>
    /\ MainAtRest /\ CallAtRest /\ FilesAtRest

\* content = generator.extract_pdf_content(uploaded_file)
ExtractPdf(file) ==
    /\ uploaded_file' = file
    /\ generator' = extract_pdf_content(generator, file)
    /\ output' = [op |-> "extract", content |-> ExtractReturn(file)]
    /\ pc' = "extracted"
    /\ UNCHANGED <<env, session_state, sliders, button_disabled, question_distribution,
                   questions, prompts, counts, genVars, records, temp_dir>>

ExtractNext == \E file \in ExtractFiles : ExtractPdf(file)

SpecExtract == ExtractInit /\ [][ExtractNext]_vars

\* a page of the file could not be read
ReadFails(file) == file.fails_at \in 1..Max(1, Len(file.pages))

\* C30: when reading a page of the uploaded PDF fails, extract_pdf_content
\* returns no content and the generator's source_content is what it was before
\* the call; source_content is replaced, by the text of all pages, only when
\* every page was read.
C30_FailedExtractionKeepsContent ==
    [][/\ ReadFails(uploaded_file') =>
             /\ output'.content = None
             /\ generator'.source_content = generator.source_content
       /\ generator'.source_content # generator.source_content =>
             /\ ~ReadFails(uploaded_file')
             /\ generator'.source_content = ExtractedText(uploaded_file'.pages)
             /\ output'.content = generator'.source_content]_vars

\* the second page of a file failed after an earlier upload had been read
C30_Witness ==
    /\ pc = "extracted"
    /\ uploaded_file.fails_at = 2
    /\ Len(uploaded_file.pages) = 2
    /\ output.content = None
    /\ generator.source_content = ExtractedText(<<S("chapter two")>>)

-----------------------------------------------------------------------------
(* SpecDist: the type counts of main() for every position of the sliders    *)

DistInit ==
    /\ env = FullEnv
    /\ session_state = <<>>
    /\ uploaded_file = SamplePdf
    /\ sliders \in [total_questions : TotalChoices,
                    multiple_choice_ratio : 0..MaxPercent,
                    short_answer_ratio : 0..MaxPercent,
                    easy_ratio : {DefaultSliders.easy_ratio},
                    medium_ratio : {DefaultSliders.medium_ratio},
                    visual_ratio : {DefaultSliders.visual_ratio}]
    /\ button_disabled = FALSE
    /\ generator = NoGenerator
    /\ question_distribution = <<>>
    /\ questions = <<>>
    /\ prompts = <<>>
    /\ counts = <<>>
    /\ pc = "rendered"
    /\ CallAtRest /\ FilesAtRest

\* lines 874-876 of main()
ComputeTypeCounts ==
    /\ pc = "rendered"
    /\ counts' = TypeCounts(sliders.total_questions, sliders.multiple_choice_ratio,
                            sliders.short_answer_ratio)
    /\ pc' = "counted"
    /\ UNCHANGED <<env, session_state, uploaded_file, sliders, button_disabled, generator,
                   question_distribution, questions, prompts, genVars, fileVars>>

DistNext == ComputeTypeCounts

SpecDist == DistInit /\ [][DistNext]_vars

\* C1: for every total_questions in 10, 20, ..., 200 and every
\* multiple_choice_ratio and short_answer_ratio in 0..100, mc_count and sa_count
\* are the truncated shares and the three counts sum to total_questions.
C1_TypeCountsSumToTotal ==
    pc = "counted" =>
        /\ counts.mc_count * 100 <= sliders.total_questions * sliders.multiple_choice_ratio
        /\ sliders.total_questions * sliders.multiple_choice_ratio < (counts.mc_count + 1) * 100
        /\ counts.sa_count * 100 <= sliders.total_questions * sliders.short_answer_ratio
        /\ sliders.total_questions * sliders.short_answer_ratio < (counts.sa_count + 1) * 100
        /\ counts.mc_count + counts.sa_count + counts.essay_count = sliders.total_questions

\* the two ratios exceed 100 together, and the shares are not whole numbers
C1_Witness ==
    /\ pc = "counted"
    /\ sliders.multiple_choice_ratio + sliders.short_answer_ratio > MaxPercent
    /\ (sliders.total_questions * sliders.multiple_choice_ratio) % 100 # 0
    /\ (sliders.total_questions * sliders.short_answer_ratio) % 100 # 0
    /\ counts.essay_count < 0

-----------------------------------------------------------------------------
(* SpecDiff: the difficulty split of main() for every position of the two   *)
(* difficulty sliders                                                       *)

DiffTotals == {MinQuestions, DEFAULT_QUESTION_COUNT}

DiffInit ==
    /\ env = FullEnv
    /\ session_state = <<>>
    /\ uploaded_file = SamplePdf
    /\ sliders \in [total_questions : DiffTotals,
                    multiple_choice_ratio : {DefaultSliders.multiple_choice_ratio},
                    short_answer_ratio : {DefaultSliders.short_answer_ratio},
                    easy_ratio : 0..MaxPercent,
                    medium_ratio : 0..MaxPercent,
                    visual_ratio : {DefaultSliders.visual_ratio}]
    /\ button_disabled = FALSE
    /\ generator = NoGenerator
    /\ question_distribution = <<>>
    /\ questions = <<>>
    /\ prompts = <<>>
    /\ counts = <<>>
    /\ pc = "rendered"
    /\ CallAtRest /\ FilesAtRest

\* lines 870-888 of main()
ComputeDistribution(seed) ==
    /\ pc = "rendered"
    /\ counts' = TypeCounts(sliders.total_questions, sliders.multiple_choice_ratio,
                            sliders.short_answer_ratio)
    /\ question_distribution' =
           BuildDistribution(TypeCounts(sliders.total_questions,
                                        sliders.multiple_choice_ratio,
                                        sliders.short_answer_ratio),
                             sliders, seed)
    /\ pc' = "distributed"
    /\ UNCHANGED <<env, session_state, uploaded_file, sliders, button_disabled, generator,
                   questions, prompts, genVars, fileVars>>

DiffNext == \E seed \in 0..MaxSeed : ComputeDistribution(seed)

SpecDiff == DiffInit /\ [][DiffNext]_vars

\* the number of tuples of question_distribution with a type and a difficulty
TuplesOf(q_type, difficulty) ==
    Cardinality({k \in 1..Len(question_distribution) :
                    /\ question_distribution[k][1] = q_type
                    /\ question_distribution[k][3] = difficulty})

SplitOf(q_type, count) ==
    /\ TuplesOf(q_type, EASY) = IntPercent(count, sliders.easy_ratio)
    /\ TuplesOf(q_type, MEDIUM) = IntPercent(count, sliders.medium_ratio)
    /\ TuplesOf(q_type, HARD) = count - IntPercent(count, sliders.easy_ratio)
                                      - IntPercent(count, sliders.medium_ratio)
    /\ TuplesOf(q_type, EASY) + TuplesOf(q_type, MEDIUM) + TuplesOf(q_type, HARD) = count

\* C19: for every easy_ratio and medium_ratio in 0..100 and each question type
\* whose count c is positive, the tuples of that type with difficulty easy,
\* medium and hard number trunc(c*easy_ratio/100), trunc(c*medium_ratio/100) and
\* c minus those two, and so total c.
C19_DifficultySplit ==
    pc = "distributed" =>
        /\ counts.mc_count > 0 => SplitOf(MC, counts.mc_count)
        /\ counts.sa_count > 0 => SplitOf(SA, counts.sa_count)
        /\ counts.essay_count > 0 => SplitOf(ESSAY, counts.essay_count)

-----------------------------------------------------------------------------
(* src/utils/utils.py (and main_app.py): generate_statistics               *)

Unclassified == S("unclassified")      \* '미분류'
OtherVisual == S("other")              \* '기타'
SubjectSeparator == <<SP, ">", SP>>    \* ' > '

\* the k-th element on, 0-based: s[k:]
From(s, k) == SubSeq(s, k + 1, Len(s))

\* where ' > ' first starts in s (0-based), -1 if nowhere
FindSeparator(s) ==
    IF Contains(s, SubjectSeparator)
    THEN (CHOOSE i \in 1..Len(s) :
             /\ SubSeq(s, i, i + 2) = SubjectSeparator
             /\ \A j \in 1..(i - 1) : SubSeq(s, j, j + 2) # SubjectSeparator) - 1
    ELSE -1

\* subject.split(' > ')[-1] if ' > ' in subject else subject
RECURSIVE subject_short(_)
subject_short(subject) ==
    IF Contains(subject, SubjectSeparator)
    THEN subject_short(From(subject, FindSeparator(subject) + Len(SubjectSeparator)))
    ELSE subject

\* d[k] = 1, whatever was counted under k before
CountFromOne(d, k) == (k :> 1) @@ d

\* d[k] = d.get(k, 0) + 1
CountOne(d, k) == IF k \in DOMAIN d THEN [d EXCEPT ![k] = @ + 1] ELSE (k :> 1) @@ d

\* the counting dict after the loop went through `keys`
RECURSIVE Tally(_, _)
Tally(keys, d) == IF keys = <<>> THEN d ELSE Tally(Tail(keys), CountOne(d, Head(keys)))

\* round(visual_count / len * 100, 1) in tenths, without the digit after it
VisualRatioFloor(visual_count, len) ==
    IF len = 0 THEN 0 ELSE (visual_count * 1000) \div len

\* round(visual_count / len(questions) * 100, 1) if questions else 0, in
\* tenths of a percent; round() takes the nearest tenth, the even one at a tie
VisualRatio(visual_count, len) ==
    IF len = 0 THEN 0
    ELSE IF 2 * ((visual_count * 1000) % len) < len THEN (visual_count * 1000) \div len
    ELSE IF 2 * ((visual_count * 1000) % len) > len THEN (visual_count * 1000) \div len + 1
    ELSE (visual_count * 1000) \div len + (((visual_count * 1000) \div len) % 2)

VisualQuestions(question_list) == SelectSeq(question_list, LAMBDA q : FieldTruthy(q, "visual_image"))

VisualStatistics(len, visual) ==
    [visual_count |-> Len(visual),
     text_count   |-> len - Len(visual),
     visual_ratio |-> VisualRatio(Len(visual), len),
     visual_types |-> Tally([i \in 1..Len(visual) |-> Get(visual[i], "visual_type", OtherVisual)],
                            <<>>)]

generate_statistics(question_list) ==
    [total |-> Len(question_list),
     generated_at |-> Now,
     by_type |->
        Tally([i \in 1..Len(question_list) |-> Get(question_list[i], "question_type", Unclassified)],
              <<>>),
     by_difficulty |->
        Tally([i \in 1..Len(question_list) |-> Get(question_list[i], "difficulty", Unclassified)],
              <<>>),
     by_subject |->
        Tally([i \in 1..Len(question_list) |->
                  subject_short(Get(question_list[i], "subject_area", Unclassified))],
              <<>>),
     visual_statistics |-> VisualStatistics(Len(question_list), VisualQuestions(question_list))]

-----------------------------------------------------------------------------
(* file_manager.py: create_json_file, create_excel_file *)

\* json.dumps(questions, ensure_ascii=False, indent=2)
create_json_file(question_list) == json_dumps(question_list)

ImagePlaceholder == S("[image data - see the PDF]")

\* q.copy() with the image data replaced
ExcelRow(q) ==
    IF "visual_image" \in DOMAIN q
    THEN [k \in DOMAIN q |-> IF k = "visual_image" THEN ImagePlaceholder ELSE q[k]]
    ELSE q

\* [q for q in questions if q.get('question_type') == q_type]
type_questions(question_list, q_type) ==
    SelectSeq(question_list,
              LAMBDA q : "question_type" \in DOMAIN q /\ q["question_type"] = q_type)

SheetNames(question_list) ==
    {QuestionTypes[i] : i \in {k \in 1..Len(QuestionTypes) :
                                  type_questions(question_list, QuestionTypes[k]) # <<>>}}

Workbook(question_list, names, empty_raises) ==
    [raised |-> names = {} /\ empty_raises,
     sheets |-> [t \in names |->
                    [i \in 1..Len(type_questions(question_list, t)) |->
                        ExcelRow(type_questions(question_list, t)[i])]]]

\* create_excel_file: one sheet for each of the three types that has question_list;
\* closing a writer that wrote no sheet raises in some openpyxl versions
create_excel_file(question_list, empty_raises) ==
    Workbook(question_list, SheetNames(question_list), empty_raises)

\* q_copy is q itself: the placeholder is written into the caller's record
QuestionAfterRowShared(q) == ExcelRow(q)

\* q_copy = q.copy(): the placeholder is written into the copy, q is as it was
QuestionAfterRow(q) == q

\* create_excel_file: the caller's list after the call; the loop touches the
\* records of the three types
QuestionsAfterExcel(question_list) ==
    [i \in 1..Len(question_list) |->
        IF \E k \in 1..Len(QuestionTypes) :
              /\ "question_type" \in DOMAIN question_list[i]
              /\ question_list[i]["question_type"] = QuestionTypes[k]
        THEN QuestionAfterRow(question_list[i])
        ELSE question_list[i]]

-----------------------------------------------------------------------------
(* src/output/pdf_generator.py and main_app.py: the PDF question book.     *)
(* The story is the list of flowables; a flowable is modelled by its kind  *)
(* and the number of the question it belongs to (0: none).                 *)

VisualPerPage == 1
TextPerPage == 3
AnswersPerPage == 8

Block(kind, i) == <<kind, i>>

RECURSIVE Concat(_)
Concat(lists) == IF lists = <<>> THEN <<>> ELSE Head(lists) \o Concat(Tail(lists))

\* a tag reportlab cannot parse ('<b>' that is never closed)
OpenTag == "<b>"
\* Paragraph(text, style) raises ValueError on markup it cannot parse.
\* safe_text_escape turns every '<' into '&lt;' (and None into 'N/A'), so
\* only a str put into a Paragraph without it can raise.
Unparsable(text) == text # Null /\ \E j \in 1..Len(text) : text[j] = OpenTag

\* base64.b64decode and PILImage.open succeed on what _fig_to_base64 made
Decodable(visual_image) == Len(visual_image) = 2 /\ visual_image[1] = "base64:"

\* _process_visual_image returned an image; io_fails: saving the temporary
\* PNG (or making the ReportLabImage) raised
ImageShown(q, io_fails) == Decodable(q["visual_image"]) /\ ~io_fails

\* generate_statistics raises: ' > ' in subject, for a subject that is None
StatisticsRaise(question_list) ==
    \E i \in 1..Len(question_list) : Get(question_list[i], "subject_area", Unclassified) = Null

\* the statistics page raises: generate_statistics, or a Paragraph made of a
\* question type or a difficulty as it is
StatisticsPageRaises(question_list) ==
    \/ StatisticsRaise(question_list)
    \/ \E i \in 1..Len(question_list) :
          \/ Unparsable(Get(question_list[i], "question_type", Unclassified))
          \/ Unparsable(Get(question_list[i], "difficulty", Unclassified))

\* _add_title_page
add_title_page ==
    <<Block("book_title", 0), Block("book_title", 0), Block("spacer", 0),
      Block("created_at", 0), Block("total", 0), Block("pagebreak", 0)>>

\* _add_statistics_page on a list for which it does not raise
add_statistics_page(question_list, stats) ==
    <<Block("statistics_title", 0), Block("spacer", 0), Block("by_type", 0)>>
    \o [j \in 1..Cardinality(DOMAIN stats.by_type) |-> Block("count", 0)]
    \o <<Block("spacer", 0), Block("by_difficulty", 0)>>
    \o [j \in 1..Cardinality(DOMAIN stats.by_difficulty) |-> Block("count", 0)]
    \o (IF stats.visual_statistics.visual_count > 0
        THEN <<Block("spacer", 0), Block("visual", 0), Block("count", 0), Block("count", 0)>>
        ELSE <<>>)
    \o <<Block("pagebreak", 0)>>

\* where the handling of question i raises: at the info line
\* (question['visual_type'].upper() in a Paragraph), at the placeholder of an
\* image that was not made (question.get('visual_type', 'Image').upper() on
\* None), or nowhere
QuestionRaisesAt(q, io_fails) ==
    IF FieldTruthy(q, "visual_type") /\ Unparsable(q["visual_type"]) THEN "info"
    ELSE IF /\ FieldTruthy(q, "visual_image")
            /\ ~ImageShown(q, io_fails)
            /\ Get(q, "visual_type", S("Image")) = Null
         THEN "image"
    ELSE "none"

\* title, info line and scenario of question i
QuestionHead(q, i) ==
    <<Block("title", i), Block("info", i)>>
    \o (IF FieldTruthy(q, "scenario") THEN <<Block("scenario", i), Block("spacer", i)>>
        ELSE <<>>)

\* the image of question i, or the text that stands for it
ImageBlocks(q, i, io_fails) ==
    IF ~FieldTruthy(q, "visual_image") THEN <<>>
    ELSE IF ImageShown(q, io_fails) THEN <<Block("image", i), Block("spacer", i)>>
    ELSE <<Block("placeholder", i), Block("spacer", i)>>

\* text and choices of question i, and the page break after it
QuestionBody(q, i, n) ==
    <<Block("question", i), Block("spacer", i)>>
    \o (IF Get(q, "question_type", Null) = MC /\ FieldTruthy(q, "choices")
        THEN [c \in 1..Len(q["choices"]) |-> Block("choice", i)] ELSE <<>>)
    \o <<Block("spacer", i)>>
    \o (IF i % (IF FieldTruthy(q, "visual_image") THEN VisualPerPage ELSE TextPerPage) = 0
           /\ i < n
        THEN <<Block("pagebreak", i)>> ELSE <<>>)

\* what the story receives for question i until `at`
QuestionBlocks(q, i, n, io_fails, at) ==
    IF at = "info" THEN <<Block("title", i)>>
    ELSE IF at = "image" THEN QuestionHead(q, i)
    ELSE QuestionHead(q, i) \o ImageBlocks(q, i, io_fails) \o QuestionBody(q, i, n)

\* one pass of the loop of _add_question_section: the try and its except
QuestionEntry(q, i, n, io_fails) ==
    QuestionBlocks(q, i, n, io_fails, QuestionRaisesAt(q, io_fails))
    \o (IF QuestionRaisesAt(q, io_fails) = "none" THEN <<>> ELSE <<Block("error", i)>>)

\* _add_question_section
add_question_section(question_list, io_fails) ==
    <<Block("questions_title", 0), Block("spacer", 0)>>
    \o Concat([i \in 1..Len(question_list) |->
                  QuestionEntry(question_list[i], i, Len(question_list), io_fails)])

\* the Paragraph of a short answer holds the alternative answers as they are
AnswerRaises(q) ==
    /\ Get(q, "question_type", Null) = SA
    /\ FieldTruthy(q, "alternative_answers")
    /\ \E a \in 1..Len(q["alternative_answers"]) : Unparsable(q["alternative_answers"][a])

\* the answer of a question by its type
TypeAnswer(q, i) ==
    IF Get(q, "question_type", Null) \in {MC, SA} THEN <<Block("answer", i)>>
    ELSE IF Get(q, "question_type", Null) = ESSAY
         THEN <<Block("model_answer", i)>>
              \o (IF FieldTruthy(q, "grading_criteria")
                  THEN <<Block("criteria_title", i)>>
                       \o [c \in 1..Len(q["grading_criteria"]) |-> Block("criterion", i)]
                  ELSE <<>>)
    ELSE <<>>

\* one pass of the loop of _add_answer_section: the try and its except
AnswerEntry(q, i, n) ==
    IF AnswerRaises(q) THEN <<Block("answer_number", i), Block("error", i)>>
    ELSE <<Block("answer_number", i)>>
         \o TypeAnswer(q, i)
         \o (IF FieldTruthy(q, "explanation") THEN <<Block("explanation", i)>> ELSE <<>>)
         \o <<Block("spacer", i)>>
         \o (IF i % AnswersPerPage = 0 /\ i < n THEN <<Block("pagebreak", i)>> ELSE <<>>)

\* _add_answer_section
add_answer_section(question_list) ==
    <<Block("pagebreak", 0), Block("answers_title", 0), Block("spacer", 0)>>
    \o Concat([i \in 1..Len(question_list) |->
                  AnswerEntry(question_list[i], i, Len(question_list))])

\* the bytes of a document that was built
PdfBytes == S("%PDF")

\* the first question (1-based) whose handling raises, len + 1 if none does
FirstRaising(question_list, io_fails) ==
    IF \E i \in 1..Len(question_list) : QuestionRaisesAt(question_list[i], io_fails) # "none"
    THEN CHOOSE i \in 1..Len(question_list) :
            /\ QuestionRaisesAt(question_list[i], io_fails) # "none"
            /\ \A j \in 1..(i - 1) : QuestionRaisesAt(question_list[j], io_fails) = "none"
    ELSE Len(question_list) + 1

\* the questions among the first `upto` whose image was saved as a temporary PNG
ImagesWritten(question_list, io_fails, upto) ==
    {i \in 1..Min(upto, Len(question_list)) :
        /\ QuestionRaisesAt(question_list[i], io_fails) # "info"
        /\ FieldTruthy(question_list[i], "visual_image")
        /\ ImageShown(question_list[i], io_fails)}

\* the question loop of main_app.create_pdf_document_with_images, which has
\* no try of its own: it ends after question `last`
MainQuestionLoop(question_list, io_fails, last) ==
    <<Block("questions_title", 0), Block("spacer", 0)>>
    \o Concat([i \in 1..Min(last, Len(question_list)) |->
                  QuestionBlocks(question_list[i], i, Len(question_list), io_fails,
                                 QuestionRaisesAt(question_list[i], io_fails))])

\* what a call did: raised (the exception left the function), built
\* (doc.build returned), data (the bytes returned), story, written (the
\* temporary images saved)
PdfResult(raised, built, story, written) ==
    [raised |-> raised, built |-> built, data |-> IF built THEN PdfBytes ELSE <<>>,
     story |-> story, written |-> written]

\* PDFGenerator.create_pdf_document_with_images(questions), format_type
\* "separated" as every caller has it; build_raises: doc.build raised
PDFGenerator_create_pdf_document_with_images(question_list, io_fails, build_raises) ==
    IF StatisticsPageRaises(question_list)
    THEN PdfResult(FALSE, FALSE, add_title_page, {})
    ELSE PdfResult(FALSE, ~build_raises,
                   add_title_page
                   \o add_statistics_page(question_list, generate_statistics(question_list))
                   \o add_question_section(question_list, io_fails)
                   \o add_answer_section(question_list),
                   ImagesWritten(question_list, io_fails, Len(question_list)))

\* main_app.create_pdf_document_with_images(questions): the title and the
\* statistics pages are made before the try, the questions inside it
create_pdf_document_with_images(question_list, io_fails, build_raises) ==
    IF StatisticsPageRaises(question_list)
    THEN PdfResult(TRUE, FALSE, add_title_page, {})
    ELSE IF FirstRaising(question_list, io_fails) <= Len(question_list)
    THEN PdfResult(FALSE, FALSE,
                   add_title_page
                   \o add_statistics_page(question_list, generate_statistics(question_list))
                   \o MainQuestionLoop(question_list, io_fails,
                                       FirstRaising(question_list, io_fails)),
                   ImagesWritten(question_list, io_fails,
                                 FirstRaising(question_list, io_fails)))
    ELSE PdfResult(FALSE, ~build_raises,
                   add_title_page
                   \o add_statistics_page(question_list, generate_statistics(question_list))
                   \o MainQuestionLoop(question_list, io_fails, Len(question_list))
                   \o add_answer_section(question_list),
                   ImagesWritten(question_list, io_fails, Len(question_list)))

\* f"temp_image_{question_num}_{random.randint(1000, 9999)}.png"
TempImage(i) == <<"temp_image", i>>

\* _create_temp_dir, and the files the call saves in the directory
create_temp_dir(d) == [d EXCEPT !.exists = TRUE]
DirWritten(d, written) == [d EXCEPT !.files = @ \cup {TempImage(i) : i \in written}]

\* a finally that leaves the directory as it is
cleanup_skipped(d) == d

\* cleanup_temp_files(temp_dir): every file of the directory is removed, then
\* the directory
cleanup_temp_files(d) == IF d.exists THEN NoTempDir ELSE d

\* the directory after a call that started with directory d
TempDirAfter(d, pdf) ==
    IF pdf.raised THEN d
    ELSE cleanup_temp_files(DirWritten(create_temp_dir(d), pdf.written))

\* an entry of the archive: f"{base}_{timestamp}.{ext}"
Entry(base, timestamp, ext, data) ==
    [base |-> base, timestamp |-> timestamp, ext |-> ext, empty |-> data = <<>>]

\* FileManager.create_download_zip(questions), given what the PDF and the
\* Excel calls did; create_statistics_file raises where generate_statistics does
create_download_zip(question_list, timestamp, pdf, workbook) ==
    [raised |-> workbook.raised \/ StatisticsRaise(question_list),
     entries |->
        <<Entry("BA_questions", timestamp, "json", S("["))>>
        \o (IF pdf.data # <<>> THEN <<Entry("BA_questions", timestamp, "pdf", pdf.data)>>
            ELSE <<>>)
        \o <<Entry("BA_questions", timestamp, "xlsx", S("PK")),
             Entry("BA_question_stats", timestamp, "json", S("{"))>>]

\* main_app.create_download_files(questions)
create_download_files(question_list, timestamp, pdf, workbook) ==
    [raised |-> pdf.raised \/ workbook.raised \/ StatisticsRaise(question_list),
     entries |->
        <<Entry("BA_questions", timestamp, "json", S("[")),
          Entry("BA_questions", timestamp, "pdf", pdf.data),
          Entry("BA_questions", timestamp, "xlsx", S("PK")),
          Entry("BA_question_stats", timestamp, "json", S("{"))>>]

-----------------------------------------------------------------------------
(* SpecFiles: the export functions on lists of records the generator returns *)

MaxRecords == 3

\* a completion may answer with any JSON object
R_odd ==
    [question_type |-> S("true_false"), difficulty |-> EASY,
     subject_area |-> <<"a", SP, ">", SP, "b", SP, ">", SP, "c">>,
     question |-> <<"Is ", QT, "BPMN", QT, " a notation?", NL, "(O/X)">>,
     visual_image |-> S("iVBORw0KGgo=")]
R_blank == [question_type |-> ESSAY, visual_image |-> <<>>, visual_type |-> S("erd")]

SampleRecords ==
    <<generate_fallback_question(SA, subject_areas[1], EASY),
      generate_visual_question("erd_analysis", HARD, 1),
      generate_process_flow_question(ESSAY, MEDIUM, 1),
      StampQuestion([ok |-> TRUE, val |-> R_untyped]).val,
      StampQuestion([ok |-> TRUE, val |-> R_odd]).val,
      StampQuestion([ok |-> TRUE, val |-> R_blank]).val>>

RecordLists ==
    UNION {{[i \in 1..n |-> SampleRecords[f[i]]] : f \in [1..n -> 1..Len(SampleRecords)]} :
           n \in 0..MaxRecords}

FilesInit ==
    /\ records \in RecordLists
    /\ output = [op |-> "none"]
    /\ temp_dir = NoTempDir
    /\ env = FullEnv
    /\ generator = NoGenerator
    /\ prompts = <<>>
    /\ MainAtRest /\ CallAtRest

CreateJsonFile ==
    /\ output' = [op |-> "json", text |-> create_json_file(records)]
    /\ UNCHANGED <<records, temp_dir, mainVars, genVars>>

GenerateStatistics ==
    /\ output' = [op |-> "statistics", stats |-> generate_statistics(records)]
    /\ UNCHANGED <<records, temp_dir, mainVars, genVars>>

CreateExcelFile(empty_raises) ==
    /\ output' = [op |-> "excel", workbook |-> create_excel_file(records, empty_raises)]
    /\ records' = QuestionsAfterExcel(records)
    /\ UNCHANGED <<temp_dir, mainVars, genVars>>

FilesNext ==
    \/ CreateJsonFile
    \/ GenerateStatistics
    \/ \E empty_raises \in BOOLEAN : CreateExcelFile(empty_raises)

SpecFiles == FilesInit /\ [][FilesNext]_vars

-----------------------------------------------------------------------------
(* Claims about the export functions (SpecFiles) *)

\* the parse succeeded and gave the records of `list`, field for field
ParsesBackTo(parsed, list) ==
    /\ parsed.ok
    /\ Len(parsed.val) = Len(list)
    /\ \A i \in 1..Len(list) :
          /\ DOMAIN parsed.val[i] = DOMAIN list[i]
          /\ \A k \in DOMAIN list[i] : parsed.val[i][k] = list[i][k]

\* C6: the text create_json_file returns parses back to the same list: the
\* same records in the same order, each with the same keys and the same values.
C6_JsonRoundTrip == output.op = "json" => ParsesBackTo(json_loads(output.text), records)

\* a list of two different records, one holding a list and one holding quotes
C6_Witness ==
    /\ output.op = "json"
    /\ Len(records) >= 2
    /\ records[1] # records[2]
    /\ \E i \in 1..Len(records) : "choices" \in DOMAIN records[i]
    /\ \E i \in 1..Len(records) : \E k \in DOMAIN records[i] \ ListFields :
          \E j \in 1..Len(records[i][k]) : records[i][k][j] = QT

RECURSIVE SumOf(_)
SumOf(d) ==
    IF DOMAIN d = {} THEN 0
    ELSE d[CHOOSE k \in DOMAIN d : TRUE]
            + SumOf([j \in DOMAIN d \ {CHOOSE k \in DOMAIN d : TRUE} |-> d[j]])

Lacking(field) == {i \in 1..Len(records) : field \notin DOMAIN records[i]}
CountedOnceAsUnclassified(d, field) ==
    Lacking(field) # {} => Unclassified \in DOMAIN d /\ d[Unclassified] = Cardinality(Lacking(field))

C8_VisualStatistics ==
    output.op = "statistics" =>
        /\ output.stats.visual_statistics.visual_count
              + output.stats.visual_statistics.text_count = Len(records)
        /\ SumOf(output.stats.visual_statistics.visual_types)
              = output.stats.visual_statistics.visual_count
        /\ Len(records) = 0 => output.stats.visual_statistics.visual_ratio = 0
        /\ 2 * (output.stats.visual_statistics.visual_ratio * Len(records)
                   - output.stats.visual_statistics.visual_count * 1000) <= Len(records)
        /\ 2 * (output.stats.visual_statistics.visual_count * 1000
                   - output.stats.visual_statistics.visual_ratio * Len(records)) <= Len(records)

\* two of three questions are visual: 66.666... is reported as 66.7
C8_Witness ==
    /\ output.op = "statistics"
    /\ Len(records) = 3
    /\ output.stats.visual_statistics.visual_count = 2
    /\ output.stats.visual_statistics.visual_ratio = 667

\* the sheets that hold a row made from records[i]
SheetsHolding(i) ==
    {t \in DOMAIN output.workbook.sheets :
        \E r \in 1..Len(output.workbook.sheets[t]) :
           output.workbook.sheets[t][r] = ExcelRow(records[i])}

RowCounts == [t \in DOMAIN output.workbook.sheets |-> Len(output.workbook.sheets[t])]

\* C10: create_excel_file places each record in exactly one sheet, the sheet
\* named after its question_type, and the rows of all sheets total
\* len(questions).
C10_EveryRecordInItsSheet ==
    output.op = "excel" =>
        /\ \A i \in 1..Len(records) :
              /\ "question_type" \in DOMAIN records[i]
              /\ SheetsHolding(i) = {records[i]["question_type"]}
        /\ SumOf(RowCounts) = Len(records)

\* the rows of the workbook
SheetRows ==
    UNION {{output.workbook.sheets[t][r] : r \in 1..Len(output.workbook.sheets[t])} :
           t \in DOMAIN output.workbook.sheets}

\* C27: create_excel_file leaves the records passed to it as they were, each
\* visual_image with its data, while every row of the workbook that has a
\* visual_image holds the placeholder text in it.
C27_ExcelLeavesRecordsUnchanged ==
    /\ [][output'.op = "excel" => records' = records]_vars
    /\ [](output.op = "excel" =>
             /\ \A row \in SheetRows :
                   "visual_image" \in DOMAIN row => row["visual_image"] = ImagePlaceholder
             /\ \A i \in 1..Len(records) :
                   "visual_image" \in DOMAIN records[i]
                      => records[i]["visual_image"] # ImagePlaceholder)

\* a workbook row shows the placeholder of a record that still has its image
C27_Witness ==
    /\ output.op = "excel"
    /\ \E i \in 1..Len(records) :
          /\ {"question_type", "visual_image"} \subseteq DOMAIN records[i]
          /\ records[i]["question_type"] = MC
          /\ records[i]["visual_image"] = Image("erd")
          /\ ExcelRow(records[i]) \in SheetRows
          /\ ExcelRow(records[i])["visual_image"] = ImagePlaceholder

-----------------------------------------------------------------------------
(* SpecPdf: the PDF and the archive functions on lists of records           *)

MaxShort == 2
LongLengths == {AnswersPerPage, AnswersPerPage + 1, 2 * AnswersPerPage + 1}

\* records a completion may have answered with
R_nullvisual ==
    [question_type |-> SA, question |-> S("What does the diagram show?"),
     correct_answer |-> S("an ERD"), visual_image |-> S("not base64"),
     visual_type |-> Null]
R_markup ==
    [question_type |-> SA, question |-> S("Which tag makes text bold?"),
     correct_answer |-> S("b"), alternative_answers |-> <<<<OpenTag>>, S("strong")>>]
R_nosubject ==
    [question_type |-> ESSAY, subject_area |-> Null, question |-> S("Describe BPMN."),
     model_answer |-> S("a notation"), grading_criteria |-> <<S("notation")>>]

PdfText == generate_fallback_question(MC, subject_areas[1], EASY)
PdfSamples ==
    <<PdfText,
      generate_visual_question("erd_analysis", HARD, 1),
      StampQuestion([ok |-> TRUE, val |-> R_odd]).val,
      StampQuestion([ok |-> TRUE, val |-> R_nullvisual]).val,
      StampQuestion([ok |-> TRUE, val |-> R_markup]).val,
      StampQuestion([ok |-> TRUE, val |-> R_nosubject]).val>>

\* every list of at most MaxShort sample records, and lists of text questions
\* that hold one sample record as the last question of the first answer page
PdfLists ==
    UNION {{[i \in 1..n |-> PdfSamples[f[i]]] : f \in [1..n -> 1..Len(PdfSamples)]} :
           n \in 0..MaxShort}
    \cup {[i \in 1..n |-> IF i = AnswersPerPage THEN PdfSamples[k] ELSE PdfText] :
          n \in LongLengths, k \in 1..Len(PdfSamples)}

StaleDir == [exists |-> TRUE, files |-> {<<"temp_image", 0>>}]
Clock == {S("20240101_120000"), S("20240101_120001")}

PdfInit ==
    /\ records \in PdfLists
    /\ output = [op |-> "none"]
    /\ temp_dir \in {NoTempDir, StaleDir}
    /\ env = FullEnv
    /\ generator = NoGenerator
    /\ prompts = <<>>
    /\ MainAtRest /\ CallAtRest

\* a call of either create_pdf_document_with_images
PdfCall(caller, pdf) ==
    /\ output' = [op |-> "pdf", caller |-> caller, pdf |-> pdf]
    /\ temp_dir' = TempDirAfter(temp_dir, pdf)
    /\ UNCHANGED <<records, mainVars, genVars>>

CreatePdfDocument(io_fails, build_raises) ==
    PdfCall("PDFGenerator",
            PDFGenerator_create_pdf_document_with_images(records, io_fails, build_raises))

MainCreatePdfDocument(io_fails, build_raises) ==
    PdfCall("main_app", create_pdf_document_with_images(records, io_fails, build_raises))

\* a call of create_download_zip or of create_download_files
ZipCall(caller, pdf, zip) ==
    /\ output' = [op |-> "zip", caller |-> caller, pdf |-> pdf, zip |-> zip]
    /\ temp_dir' = TempDirAfter(temp_dir, pdf)
    /\ UNCHANGED <<records, mainVars, genVars>>

CreateDownloadZip(timestamp, io_fails, build_raises, empty_raises) ==
    ZipCall("FileManager",
            PDFGenerator_create_pdf_document_with_images(records, io_fails, build_raises),
            create_download_zip(
                records, timestamp,
                PDFGenerator_create_pdf_document_with_images(records, io_fails, build_raises),
                create_excel_file(records, empty_raises)))

CreateDownloadFiles(timestamp, io_fails, build_raises, empty_raises) ==
    ZipCall("main_app",
            create_pdf_document_with_images(records, io_fails, build_raises),
            create_download_files(
                records, timestamp,
                create_pdf_document_with_images(records, io_fails, build_raises),
                create_excel_file(records, empty_raises)))

PdfNext ==
    \/ \E io_fails \in BOOLEAN, build_raises \in BOOLEAN :
          CreatePdfDocument(io_fails, build_raises)
    \/ \E io_fails \in BOOLEAN, build_raises \in BOOLEAN :
          MainCreatePdfDocument(io_fails, build_raises)
    \/ \E timestamp \in Clock, io_fails \in BOOLEAN, build_raises \in BOOLEAN,
          empty_raises \in BOOLEAN :
          CreateDownloadZip(timestamp, io_fails, build_raises, empty_raises)
    \/ \E timestamp \in Clock, io_fails \in BOOLEAN, build_raises \in BOOLEAN,
          empty_raises \in BOOLEAN :
          CreateDownloadFiles(timestamp, io_fails, build_raises, empty_raises)

SpecPdf == PdfInit /\ [][PdfNext]_vars

-----------------------------------------------------------------------------
(* Claims about the PDF and the archive (SpecPdf) *)

EntryNames(entries) ==
    {<<entries[j].base, entries[j].timestamp, entries[j].ext>> : j \in 1..Len(entries)}

\* C11: every archive create_download_zip produces holds exactly the questions
\* JSON, the PDF, the Excel workbook and the statistics JSON, all four named
\* with the same timestamp, whether the PDF was built or not.
C11_ArchiveHoldsAllFiles ==
    (output.op = "zip" /\ output.caller = "FileManager" /\ ~output.zip.raised) =>
        \E timestamp \in Clock :
            EntryNames(output.zip.entries)
                = {<<"BA_questions", timestamp, "json">>, <<"BA_questions", timestamp, "pdf">>,
                   <<"BA_questions", timestamp, "xlsx">>,
                   <<"BA_question_stats", timestamp, "json">>}

\* C12: when create_pdf_document_with_images has returned, with the document
\* or with empty bytes, no temporary image is left and the directory of
\* temporary images does not exist.
C12_TempFilesRemoved ==
    (output.op = "pdf" /\ ~output.pdf.raised) =>
        /\ temp_dir.files = {}
        /\ ~temp_dir.exists

\* the build failed after images had been saved in the directory
C12_Witness ==
    /\ output.op = "pdf"
    /\ ~output.pdf.raised
    /\ ~output.pdf.built
    /\ output.pdf.written # {}
    /\ Len(records) > Cardinality(output.pdf.written)

CountOf(story, block) == Cardinality({j \in 1..Len(story) : story[j] = block})

\* the image of question i was to be embedded (its info line is in the story)
\* and was not made
ImageFailed(i) ==
    /\ CountOf(output.pdf.story, Block("info", i)) = 1
    /\ FieldTruthy(records[i], "visual_image")
    /\ i \notin output.pdf.written

\* C13: for a question whose image could not be decoded or embedded, the story
\* holds exactly one placeholder in place of the image and no image, the text
\* and the choices of that question, and every question after it.
C13_PlaceholderForFailedImage ==
    output.op = "pdf" =>
        \A i \in 1..Len(records) :
            ImageFailed(i) =>
                /\ CountOf(output.pdf.story, Block("placeholder", i)) = 1
                /\ CountOf(output.pdf.story, Block("image", i)) = 0
                /\ CountOf(output.pdf.story, Block("question", i)) = 1
                /\ (Get(records[i], "question_type", Null) = MC /\ FieldTruthy(records[i], "choices")) =>
                      CountOf(output.pdf.story, Block("choice", i)) = Len(records[i]["choices"])
                /\ \A k \in (i + 1)..Len(records) :
                      CountOf(output.pdf.story, Block("title", k)) = 1

\* C14: create_pdf_document_with_images never lets an exception out; it
\* returns empty bytes when the document was not built and the bytes of the
\* document only when it was.
C14_NoExceptionEscapes ==
    output.op = "pdf" =>
        /\ ~output.pdf.raised
        /\ output.pdf.data # <<>> <=> output.pdf.built

\* where the answer section starts in the story
AnswersFrom(story) == CHOOSE j \in 1..Len(story) : story[j] = Block("answers_title", 0)

\* a page break follows the blocks of answer i
BreakAfterAnswer(story, i) ==
    \E j \in AnswersFrom(story)..Len(story) : story[j] = Block("pagebreak", i)

\* C17: in the answer section of a document of n questions a page break
\* follows answer i exactly when i is a multiple of 8 and i < n.
C17_AnswerPageBreaks ==
    (output.op = "pdf" /\ CountOf(output.pdf.story, Block("answers_title", 0)) = 1) =>
        \A i \in 1..Len(records) :
            BreakAfterAnswer(output.pdf.story, i)
                <=> (i % AnswersPerPage = 0 /\ i < Len(records))

\* a page break follows the blocks of question i in the question section
BreakAfterQuestion(story, i) ==
    \E j \in 1..AnswersFrom(story) : story[j] = Block("pagebreak", i)

\* the page of the question section that question i is on
PageOf(story, i) == 1 + Cardinality({j \in 1..(i - 1) : BreakAfterQuestion(story, j)})

\* the questions of page p of the question section
OnPage(story, p) == {i \in 1..Len(records) : PageOf(story, i) = p}

\* the story holds every question in full, and the answer section
WholeStory(story) ==
    /\ CountOf(story, Block("answers_title", 0)) = 1
    /\ \A i \in 1..Len(records) : CountOf(story, Block("question", i)) = 1

\* C22: in the question section every question with a visual_image is the only
\* question of its page, and every page of text-only questions but the last
\* page holds exactly three questions, whatever the order of the questions.
C22_QuestionsPerPage ==
    (output.op = "pdf" /\ WholeStory(output.pdf.story)) =>
        /\ \A i \in 1..Len(records) :
              FieldTruthy(records[i], "visual_image")
                 => OnPage(output.pdf.story, PageOf(output.pdf.story, i)) = {i}
        /\ \A p \in 1..(PageOf(output.pdf.story, Len(records)) - 1) :
              (\A i \in OnPage(output.pdf.story, p) :
                   ~FieldTruthy(records[i], "visual_image"))
                 => Cardinality(OnPage(output.pdf.story, p)) = TextPerPage

-----------------------------------------------------------------------------
\* Two browser sessions that build a PDF at the same time. Streamlit runs the
\* script of each session in a thread of its own in one process, so both calls
\* of main_app.create_pdf_document_with_images use the relative directory
\* "temp_images" of the same working directory. A step is one statement group
\* of one call: the makedirs, one turn of the question loop, doc.build, the
\* finally.

Sessions == {1, 2}

\* random.randint(1000, 9999) of the file name: the two ends of the range
Suffixes == {1000, 9999}

\* os.path.join(temp_dir, f"temp_image_{i}_{random.randint(1000, 9999)}.png")
TempImagePath(i, suffix) == <<"temp_image", i, suffix>>

BuildSamples == <<PdfText, generate_visual_question("erd_analysis", HARD, 1)>>
BuildLists ==
    UNION {{[i \in 1..n |-> BuildSamples[f[i]]] : f \in [1..n -> 1..Len(BuildSamples)]} :
           n \in 1..MaxShort}

\* a call that has not started: questions is its argument, next the question
\* the loop is at, saved the files it wrote, built whether doc.build returned
IdleBuild(question_list) ==
    [pc |-> "idle", questions |-> question_list, next |-> 1, saved |-> {},
     built |-> FALSE]

BuildsInit ==
    /\ output \in {[op |-> "builds", build |-> [s \in Sessions |-> IdleBuild(l[s])]] :
                   l \in [Sessions -> BuildLists]}
    /\ temp_dir = NoTempDir
    /\ records = <<>>
    /\ env = FullEnv
    /\ generator = NoGenerator
    /\ prompts = <<>>
    /\ MainAtRest /\ CallAtRest

Build(s) == output.build[s]
AtDocBuild(b) == b.pc = "loop" /\ b.next > Len(b.questions)

\* if not os.path.exists(temp_dir): os.makedirs(temp_dir)
MakeTempDir(s) ==
    /\ output.op = "builds"
    /\ Build(s).pc = "idle"
    /\ temp_dir' = create_temp_dir(temp_dir)
    /\ output' = [output EXCEPT !.build[s].pc = "loop"]
    /\ UNCHANGED <<records, mainVars, genVars>>

\* pil_image.save(temp_image_path, 'PNG') of the question the loop is at: it
\* raises when the directory is gone, and the except of the image keeps the loop
\* going with a text placeholder
SavesImage(q, d) ==
    /\ FieldTruthy(q, "visual_image")
    /\ ImageShown(q, FALSE)
    /\ d.exists

\* one turn of the question loop
ProcessQuestion(s, suffix) ==
    /\ output.op = "builds"
    /\ Build(s).pc = "loop"
    /\ Build(s).next <= Len(Build(s).questions)
    /\ IF SavesImage(Build(s).questions[Build(s).next], temp_dir)
       THEN /\ temp_dir' = [temp_dir EXCEPT
                               !.files = @ \cup {TempImagePath(Build(s).next, suffix)}]
            /\ output' = [output EXCEPT
                             !.build[s].saved = @ \cup {TempImagePath(Build(s).next, suffix)},
                             !.build[s].next = @ + 1]
       ELSE /\ temp_dir' = temp_dir
            /\ output' = [output EXCEPT !.build[s].next = @ + 1]
    /\ UNCHANGED <<records, mainVars, genVars>>

\* doc.build(story) reads the files of the images of the story: it returns, or
\* it raises and the except returns b""
DocBuild(s) ==
    /\ output.op = "builds"
    /\ AtDocBuild(Build(s))
    /\ output' = [output EXCEPT
                     !.build[s].pc = "finally",
                     !.build[s].built = Build(s).saved \subseteq temp_dir.files]
    /\ UNCHANGED <<records, temp_dir, mainVars, genVars>>

\* the finally: every file of the directory is removed, then the directory
CleanupPass(s) ==
    /\ output.op = "builds"
    /\ Build(s).pc = "finally"
    /\ temp_dir' = cleanup_temp_files(temp_dir)
    /\ output' = [output EXCEPT !.build[s].pc = "done"]
    /\ UNCHANGED <<records, mainVars, genVars>>

BuildsNext ==
    \/ \E s \in Sessions : MakeTempDir(s)
    \/ \E s \in Sessions, suffix \in Suffixes : ProcessQuestion(s, suffix)
    \/ \E s \in Sessions : DocBuild(s)
    \/ \E s \in Sessions : CleanupPass(s)

SpecBuilds == BuildsInit /\ [][BuildsNext]_vars

\* C29: with two PDF builds running at the same time, every temporary image
\* file a build has written is still in the directory when that build is about
\* to run doc.build.
C29_FilesPresentAtDocBuild ==
    output.op = "builds" =>
        \A s \in Sessions :
            AtDocBuild(Build(s)) => Build(s).saved \subseteq temp_dir.files

=============================================================================
